---------------------------- MODULE Spec2Model ----------------------------
(***************************************************************************)
(* A model of the controller loop of the declarative controller runtime    *)
(* (pkg/controller/controller.go): the watch-event producers that call     *)
(* Reconcile, the buffered request channel, the worker of Controller.Start *)
(* and the steps of processRequest (fetch, Pipeline.Evaluate, target       *)
(* writes).  The pipeline is the two-source join of                        *)
(* test/deployment_configmap_handler.yaml: ConfigMap joined with           *)
(* Deployment on the "related-configmap" annotation, projected onto the    *)
(* Deployment identity with the ConfigMap's resourceVersion.               *)
(* Further components, each with its own specification: the construction   *)
(* of a controller (New), the error reporter and trim of                   *)
(* pkg/controller/status_reporter.go, and the fake cache of                *)
(* pkg/cache/fake_cache.go.                                                *)
(***************************************************************************)
EXTENDS Integers, Sequences, FiniteSets, TLC

\* const WatcherBufferSize int = 1024: the capacity of the request channel.
WatcherBufferSize == 1024

\* Bounds of the model: the number of watch events the producers deliver
\* (from the empty cluster, and on top of a burst that filled the channel)
\* and the largest resourceVersion a ConfigMap takes.
MaxEvents == 3
MaxBurstEvents == 1
MaxPending == 1
MaxVersion == 2

\* The two sources of the controller and the objects the model lets exist.
ConfigMapKind == "ConfigMap"
DeploymentKind == "Deployment"
Kinds == {ConfigMapKind, DeploymentKind}
ConfigMapNames == <<"c1">>
DeploymentNames == <<"d1", "d2">>
Range(s) == {s[i] : i \in DOMAIN s}
ConfigMaps == Range(ConfigMapNames)
Deployments == Range(DeploymentNames)
NamesOf(kind) == IF kind = ConfigMapKind THEN ConfigMaps ELSE Deployments
Namespace == "x"

\* cache.DeltaType: the event types a Request and a Delta carry.
EventTypes == {"Added", "Deleted", "Updated", "Replaced", "Sync"}

\* The content of an object, as far as the pipeline reads it: a ConfigMap's
\* metadata.resourceVersion (0: absent) and a Deployment's related-configmap
\* annotation (NoRef: no such annotation, Malformed: metadata.annotations is
\* not a map, so that the JSON path of the join condition cannot be followed).
NoRef == ""
Malformed == "!"
Refs == ConfigMaps \cup {NoRef, Malformed}
Contents(kind) ==
    IF kind = ConfigMapKind
    THEN {[ver |-> v, ref |-> NoRef] : v \in 1..MaxVersion}
    ELSE {[ver |-> 0, ref |-> r] : r \in Refs}

\* obj := &unstructured.Unstructured{} with only GVK, namespace and name set:
\* the bare identity stub processRequest starts from.
Stub(req) ==
    [GVK |-> req.GVK, Namespace |-> req.Namespace, Name |-> req.Name,
     ver |-> 0, ref |-> NoRef]

\* client.ObjectKeyFromObject plus the GVK: the identity of a request's object.
KeyOf(req) == <<req.GVK, req.Name>>

\* The identity under which the engine files an object (all objects live in
\* the one namespace of the model).
ObjectKey(obj) == <<obj.GVK, obj.Name>>

\* c.manager.GetClient().Get(ctx, key, obj) on an existing object: obj is
\* filled in with the content found in the cluster.
Fetched(req, content) ==
    [Stub(req) EXCEPT !.ver = content.ver, !.ref = content.ref]

\* Map helpers (object stores are partial functions from identity to content).
Put(m, k, v) == [x \in DOMAIN m \cup {k} |-> IF x = k THEN v ELSE m[x]]
Drop(m, k) == [x \in DOMAIN m \ {k} |-> m[x]]
EmptyMap == [x \in {} |-> 0]

VARIABLES
    src,        \* the cluster: identity -> content of the objects that exist
    nev,        \* watch events delivered so far
    prod,       \* per source: the runtime controller's Reconcile call (late:
                \* the call was made when the channel was already closed)
    watcher,    \* c.watcher: the buffered request channel; each request is
                \* tagged with its send number (seq: the n-th send)
    closed,     \* whether c.watcher was closed (Start's deferred close)
    ctxDone,    \* whether the context of Start was cancelled
    cancelMark, \* number of requests sent when the context was cancelled
    wpc,        \* the worker's position: select, fetch, eval, write, returned
    wreq,       \* the request the processor was invoked on
    wobj,       \* obj of processRequest
    wfetched,   \* whether obj was filled in by the client's Get
    wdeltas,    \* deltas returned by Pipeline.Evaluate
    widx,       \* index of the next delta of the write loop
    wcall,      \* what the current (or last) processRequest call did
    wprev,      \* what the call before it did
    eng,        \* the pipeline engine: base caches and emitted view
    accView,    \* the deltas handed to target.Write, accumulated in order
    wseq,       \* the send number of the request the processor was invoked on
    nsent,      \* number of requests Reconcile sent to the channel
    nproc       \* number of requests the processor was invoked on

\* The error reporter (pkg/controller/status_reporter.go), its rate limiter,
\* its error channel and the clock.
VARIABLES
    rst,        \* "none" before NewErrorReporter, "idle" between calls, "blocked"
                \* while Push waits in its send on the error channel
    errorStack, \* s.errorStack
    critical,   \* s.critical
    rlCount,    \* s.ratelimiter: the number of Do calls so far
    rlLast,     \* s.ratelimiter: the time its function last ran
    errCap,     \* s.errorChan: its capacity (NilChan: the channel is nil)
    errorChan,  \* s.errorChan: the errors buffered in it
    rcall,      \* the last reporter call: operation, error, critical argument,
                \* the stack it found, whether it sent
    npush,      \* number of Push calls
    npop,       \* number of Pop calls
    now         \* the clock, in seconds

ctrlVars == <<src, nev, prod, watcher, closed, ctxDone, cancelMark, wpc, wreq, wseq, wobj,
              wfetched, wdeltas, widx, wcall, wprev, eng, accView, nsent, nproc>>
repVars == <<rst, errorStack, critical, rlCount, rlLast, errCap, errorChan, rcall,
             npush, npop, now>>

\* A call of New(name, mgr, config, opts) and what the manager holds.
VARIABLES
    npc,        \* the position of New: none (not called), gvk, typed, source,
                \* watch (the steps of the source loop), add, done
    ncfg,       \* config: Sources, whether Target is set, whether Pipeline.Join is
    nidx,       \* the index of the source loop
    nres,       \* what New returned: the error and whether a controller
    mgrReg      \* the manager: the runtime controllers and watches registered
                \* with it, whether the Controller was added and was started

newVars == <<npc, ncfg, nidx, nres, mgrReg>>

\* A call of trim.
VARIABLES
    tin,        \* the string handed to trim
    tout        \* the string it returned

trimVars == <<tin, tout>>

\* The fake cache (pkg/cache/fake_cache.go).
VARIABLES
    Store,      \* c.Store: the stored object, or NilObject
    upserted,   \* per identity key: the object last upserted under it and
                \* not deleted since
    cres,       \* the last cache call: operation, argument, result (again:
                \* an Upsert of the object the call before it upserted)
    cops,       \* number of cache calls
    refs        \* which Go objects these are: the address of the object
                \* c.Store points to and of the object the caller holds from
                \* its last call (NilRef: none)

cacheVars == <<Store, upserted, cres, cops, refs>>

\* An expression (pkg/pipeline/expression.go): parsed from a JSON text,
\* evaluated twice on a context, marshalled, parsed again and evaluated.
VARIABLES
    xpc,        \* the position: idle, parsed, failed, evaluated, twice,
                \* marshalled, reparsed, done
    xjson,      \* J: the JSON text handed to UnmarshalJSON
    xexp,       \* what UnmarshalJSON(J) returned: the error and E
    xctx,       \* the evaluation context: object and subject
    xres,       \* the outcome of the first E.Evaluate(ctx)
    xres2,      \* the outcome of the second E.Evaluate(ctx)
    xtext,      \* what E.MarshalJSON() returned: the error and the text J'
    xexp2,      \* what UnmarshalJSON(J') returned: the error and E'
    xres3       \* the outcome of E'.Evaluate(ctx)

exprVars == <<xpc, xjson, xexp, xctx, xres, xres2, xtext, xexp2, xres3>>

vars == <<ctrlVars, repVars, newVars, trimVars, cacheVars, exprVars>>

\* What the actions of one component leave alone: the other components.
notCtrl == <<repVars, newVars, trimVars, cacheVars, exprVars>>
notRep == <<ctrlVars, newVars, trimVars, cacheVars, exprVars>>
notNew == <<ctrlVars, repVars, trimVars, cacheVars, exprVars>>
notTrim == <<ctrlVars, repVars, newVars, cacheVars, exprVars>>
notCache == <<ctrlVars, repVars, newVars, trimVars, exprVars>>
notExpr == <<ctrlVars, repVars, newVars, trimVars, cacheVars>>

envVars == <<src, nev>>
chanVars == <<watcher, closed, nsent>>
procVars == <<wobj, wfetched, wdeltas, widx, eng, accView>>
recvVars == <<wreq, wseq, nproc>>

Request(t, kind, name) ==
    [EventType |-> t, GVK |-> kind, Namespace |-> Namespace, Name |-> name]
NoRequest == Request("Sync", ConfigMapKind, "")
FreshCall == [get |-> "none", eval |-> "none", nout |-> 0, nwrites |-> 0, err |-> "none"]
Sent(req, n) == [req |-> req, seq |-> n]
Idle == [st |-> "idle", req |-> NoRequest, late |-> FALSE]


(***************************************************************************)
(* The pipeline and its engine (pkg/pipeline: Pipeline.Evaluate and the    *)
(* default engine), after sections 4.2 and 4.3 of the specification.       *)
(***************************************************************************)

\* The engine after construction: empty base caches, nothing emitted.
NewDefaultEngine == [base |-> EmptyMap, view |-> EmptyMap]

\* The engine applies the incoming delta to its base cache: entries are
\* created or updated on Added/Updated/Replaced/Sync and removed on Deleted.
ApplyDelta(base, delta) ==
    IF delta.Type = "Deleted"
    THEN Drop(base, ObjectKey(delta.Object))
    ELSE Put(base, ObjectKey(delta.Object), delta.Object)

\* @join: the condition reads $.Deployment.metadata.annotations[...]; it is
\* an Expression error when some Deployment's annotations cannot be followed
\* while there is a ConfigMap to compare it with.
JoinError(base) ==
    /\ \E c \in ConfigMaps : <<ConfigMapKind, c>> \in DOMAIN base
    /\ \E d \in Deployments :
          /\ <<DeploymentKind, d>> \in DOMAIN base
          /\ base[<<DeploymentKind, d>>].ref = Malformed

\* The Deployments that join a ConfigMap of the base state.
Joined(base) ==
    {d \in Deployments :
        /\ <<DeploymentKind, d>> \in DOMAIN base
        /\ <<ConfigMapKind, base[<<DeploymentKind, d>>].ref>> \in DOMAIN base}

\* The full evaluation of the pipeline over a base state: @join on
\* ConfigMap.name = Deployment.annotations[related-configmap], @project onto
\* the Deployment's identity with the ConfigMap's resourceVersion.
FullEval(base) ==
    [d \in Joined(base) |->
        base[<<ConfigMapKind, base[<<DeploymentKind, d>>].ref>>].ver]

\* Whether the composition projected onto Deployment d includes the object
\* of the delta.
Involves(base, delta, d) ==
    IF delta.Object.GVK = DeploymentKind
    THEN d = delta.Object.Name
    ELSE base[<<DeploymentKind, d>>].ref = delta.Object.Name

OutDelta(t, d, v) == [Type |-> t, Name |-> d, Ver |-> v]

\* The output deltas of one input delta: a composition present before and
\* absent after is emitted as Deleted, one absent before and present after as
\* Added, the others inherit the type of the input delta; deletes come first.
OutDeltas(engine, base, delta) ==
    LET new == FullEval(base)
        gone == SelectSeq(DeploymentNames,
                    LAMBDA d : d \in DOMAIN engine.view /\ d \notin DOMAIN new)
        kept == SelectSeq(DeploymentNames,
                    LAMBDA d : /\ d \in DOMAIN new
                               /\ \/ d \notin DOMAIN engine.view
                                  \/ engine.view[d] # new[d]
                                  \/ Involves(base, delta, d))
    IN  [i \in 1..Len(gone) |-> OutDelta("Deleted", gone[i], engine.view[gone[i]])]
        \o
        [i \in 1..Len(kept) |->
            OutDelta(IF kept[i] \notin DOMAIN engine.view THEN "Added"
                     ELSE IF delta.Type = "Deleted" THEN "Updated"
                     ELSE delta.Type,
                     kept[i], new[kept[i]])]

\* Pipeline.Evaluate(engine, delta): the output deltas, or an error, and the
\* engine afterwards (the base cache holds the delta in either case; the
\* emitted view only when the deltas were emitted).
Evaluate(engine, delta) ==
    LET base == ApplyDelta(engine.base, delta)
    IN  IF JoinError(base)
        THEN [err |-> TRUE, deltas |-> <<>>,
              eng |-> [base |-> base, view |-> engine.view]]
        ELSE [err |-> FALSE, deltas |-> OutDeltas(engine, base, delta),
              eng |-> [base |-> base, view |-> FullEval(base)]]

\* A view with one output delta applied.
Accumulate(view, d) ==
    IF d.Type = "Deleted" THEN Drop(view, d.Name) ELSE Put(view, d.Name, d.Ver)


(***************************************************************************)
(* The error reporter: errorReporter of status_reporter.go, a stack of the *)
(* most recent errors with a critical flag, and the rate-limited status    *)
(* notifications on its error channel.                                     *)
(***************************************************************************)

\* ErrorReporterStackSize, TrimPrefixSuffixLen and the fields of the
\* rate.Sometimes of getDefaultRateLimiter (First: 3, Interval: 2 seconds).
ErrorReporterStackSize == 10
TrimPrefixSuffixLen == 120
RateLimiterFirst == 3
RateLimiterInterval == 2

\* Bounds: the Push and Pop calls made on one reporter, the seconds the
\* clock runs, the largest capacity of the error channel, and the longest
\* error message handed to trim.
MaxPushes == 12
MaxPops == 2
MaxTime == 3
MaxErrChanCap == 1
MaxMessageLen == 250

\* The capacity of a nil error channel.
NilChan == -1

\* Errors: the n-th pushed error, the errors processRequest returns, and nil.
Err(n) == [id |-> n, kind |-> "error"]
NilError == [id |-> 0, kind |-> "nil"]
NoCall == [op |-> "none", err |-> NilError, crit |-> FALSE, stack |-> <<>>, send |-> "none"]

\* Strings are sequences of character codes; the string of length n used as
\* a message has the distinct characters 1001 .. 1000+n.
Str(n) == [i \in 1..n |-> 1000 + i]
Ellipsis == <<91, 46, 46, 46, 93>>

\* err.Error() of a pushed error.
Message(err) == <<err.id>>

\* The reporter before NewErrorReporter.
ReporterInit ==
    /\ rst = "none"
    /\ errorStack = <<>>
    /\ critical = FALSE
    /\ rlCount = 0
    /\ rlLast = 0
    /\ errCap = NilChan
    /\ errorChan = <<>>
    /\ rcall = NoCall
    /\ npush = 0
    /\ npop = 0
    /\ now = 0

\* NewErrorReporter(errorChan): an empty stack, the default rate limiter and
\* the given channel (nil, unbuffered or buffered).
NewErrorReporter(cap) ==
    /\ rst = "none"
    /\ rst' = "idle"
    /\ errorStack' = <<>>
    /\ critical' = FALSE
    /\ rlCount' = 0
    /\ rlLast' = 0
    /\ errCap' = cap
    /\ errorChan' = <<>>
    /\ UNCHANGED <<notRep, rcall, npush, npop, now>>

\* A limiter that lets every call through.
SometimesDue_Always == TRUE

\* rate.Sometimes.Do: the function runs on the first call, on the first
\* First calls, and when Interval has passed since it last ran.
SometimesDue ==
    \/ rlCount = 0
    \/ RateLimiterFirst > 0 /\ rlCount < RateLimiterFirst
    \/ RateLimiterInterval > 0 /\ now - rlLast >= RateLimiterInterval

\* A push that appends also to a full stack.
StackPush_NoEvict(stack, err) == Append(stack, err)

\* A push that on a full stack overwrites the newest error (the copy that
\* shifts the stack down is missing).
StackPush_EvictNewest(stack, err) ==
    IF Len(stack) = ErrorReporterStackSize
    THEN [stack EXCEPT ![Len(stack)] = err]
    ELSE Append(stack, err)

\* The stack of Push: a full stack is shifted down by one and the error
\* takes the last slot, otherwise the error is appended.
StackPush(stack, err) ==
    IF Len(stack) = ErrorReporterStackSize
    THEN [i \in 1..Len(stack) |-> IF i < Len(stack) THEN stack[i + 1] ELSE err]
    ELSE Append(stack, err)

\* The body of Push(err, critical): the stack, then the deferred
\* s.ratelimiter.Do, whose function sends err on a non-nil error channel; the
\* send blocks while the channel has no room.  s.critical is not assigned.
PushBody(err, crit, op) ==
    /\ rst = "idle"
    /\ npush < MaxPushes
    /\ npush' = npush + 1
    /\ errorStack' = StackPush(errorStack, err)
    /\ IF SometimesDue /\ errCap # NilChan
       THEN IF Len(errorChan) < errCap
            THEN /\ errorChan' = Append(errorChan, err)
                 /\ rlLast' = now
                 /\ rlCount' = rlCount + 1
                 /\ rst' = "idle"
                 /\ rcall' = [NoCall EXCEPT !.op = op, !.err = err, !.crit = crit,
                                        !.stack = errorStack, !.send = "done"]
            ELSE /\ rst' = "blocked"
                 /\ rcall' = [NoCall EXCEPT !.op = op, !.err = err, !.crit = crit,
                                        !.stack = errorStack, !.send = "blocked"]
                 /\ UNCHANGED <<errorChan, rlLast, rlCount>>
       ELSE /\ rlLast' = IF SometimesDue THEN now ELSE rlLast
            /\ rlCount' = rlCount + 1
            /\ rst' = "idle"
            /\ rcall' = [NoCall EXCEPT !.op = op, !.err = err, !.crit = crit,
                                        !.stack = errorStack, !.send = "none"]
            /\ UNCHANGED errorChan
    /\ UNCHANGED <<notRep, errCap, npop, now>>

Push(err, crit) ==
    /\ PushBody(err, crit, "Push")
    /\ UNCHANGED critical

\* PushError: return s.Push(err, false)
PushError(err) ==
    /\ PushBody(err, FALSE, "PushError")
    /\ UNCHANGED critical

\* PushCriticalError: s.critical = true; return s.Push(err, true)
PushCriticalError(err) ==
    /\ critical' = TRUE
    /\ PushBody(err, TRUE, "PushCriticalError")

\* A Pop that also clears the critical flag.
Pop_ClearCritical ==
    /\ rst = "idle"
    /\ npop < MaxPops
    /\ npop' = npop + 1
    /\ errorStack' = IF errorStack = <<>> THEN errorStack
                     ELSE SubSeq(errorStack, 1, Len(errorStack) - 1)
    /\ critical' = FALSE
    /\ rcall' = [NoCall EXCEPT !.op = "Pop", !.stack = errorStack]
    /\ UNCHANGED <<notRep, rst, rlCount, rlLast, errCap, errorChan, npush, now>>

\* A Pop that removes the oldest error of the stack.
Pop_DropOldest ==
    /\ rst = "idle"
    /\ npop < MaxPops
    /\ npop' = npop + 1
    /\ errorStack' = IF errorStack = <<>> THEN errorStack ELSE Tail(errorStack)
    /\ rcall' = [NoCall EXCEPT !.op = "Pop", !.stack = errorStack]
    /\ UNCHANGED <<notRep, rst, critical, rlCount, rlLast, errCap, errorChan, npush, now>>

\* Pop: nothing on an empty stack, otherwise the last error is removed.
Pop ==
    /\ rst = "idle"
    /\ npop < MaxPops
    /\ npop' = npop + 1
    /\ errorStack' = IF errorStack = <<>> THEN errorStack
                     ELSE SubSeq(errorStack, 1, Len(errorStack) - 1)
    /\ rcall' = [NoCall EXCEPT !.op = "Pop", !.stack = errorStack]
    /\ UNCHANGED <<notRep, rst, critical, rlCount, rlLast, errCap, errorChan, npush, now>>

\* Top, Size, IsEmpty, IsCritical
Top(stack) == IF stack = <<>> THEN NilError ELSE stack[Len(stack)]
Size(stack) == Len(stack)
IsEmpty(stack) == Len(stack) = 0
IsCritical == critical

\* trim: a string longer than 2*TrimPrefixSuffixLen+5 is cut to
\* s[0:TrimPrefixSuffixLen-1] + "[...]" + s[len(s)-TrimPrefixSuffixLen:].
trim(s) ==
    IF Len(s) <= 2 * TrimPrefixSuffixLen + 5
    THEN s
    ELSE SubSeq(s, 1, TrimPrefixSuffixLen - 1) \o Ellipsis
         \o SubSeq(s, Len(s) - TrimPrefixSuffixLen + 1, Len(s))

\* Report: the trimmed messages of the stack, from index 0 on.
Report(stack) == [i \in 1..Len(stack) |-> trim(Message(stack[i]))]

\* The status notifier receives from the error channel; a Push blocked in
\* its send then completes (its error enters the channel, or is handed over
\* directly on an unbuffered channel) and the rate limiter notes the run.
NotifierRecv ==
    /\ rst \in {"idle", "blocked"}
    /\ errCap # NilChan
    /\ errorChan # <<>> \/ rst = "blocked"
    /\ errorChan' = IF errorChan = <<>> THEN errorChan
                    ELSE IF rst = "blocked" THEN Append(Tail(errorChan), rcall.err)
                    ELSE Tail(errorChan)
    /\ IF rst = "blocked"
       THEN /\ rst' = "idle"
            /\ rlLast' = now
            /\ rlCount' = rlCount + 1
            /\ rcall' = [rcall EXCEPT !.send = "done"]
       ELSE UNCHANGED <<rst, rlLast, rlCount, rcall>>
    /\ UNCHANGED <<notRep, errorStack, critical, errCap, npush, npop>>
    /\ UNCHANGED now

\* A second passes.
Tick ==
    /\ rst # "none"
    /\ now < MaxTime
    /\ now' = now + 1
    /\ UNCHANGED <<notRep, rst, errorStack, critical, rlCount, rlLast, errCap, errorChan,
                   rcall, npush, npop>>

(***************************************************************************)
(* New: the sanity checks of the configuration, then one runtime           *)
(* controller and one watch per source, then the scheduling of the         *)
(* Controller with the manager.                                            *)
(***************************************************************************)

\* Bound: the number of sources of a configuration.
MaxSources == 2

\* The configurations: a list of sources, a target (set or the empty
\* Target{}) and a pipeline with or without a Join.
SourceLists == UNION {[1..n -> Kinds] : n \in 0..MaxSources}
Configs == [Sources : SourceLists, Target : BOOLEAN, Join : BOOLEAN]
NoConfig == [Sources |-> <<>>, Target |-> FALSE, Join |-> FALSE]

NoResult == [err |-> "none", ctrl |-> FALSE]
EmptyManager == [ctrls |-> 0, watches |-> 0, added |-> FALSE, started |-> FALSE]

NewInit ==
    /\ npc = "none"
    /\ ncfg = NoConfig
    /\ nidx = 0
    /\ nres = NoResult
    /\ mgrReg = EmptyManager

\* A sanity check without the test for the Join of a multi-source pipeline.
SanityError_NoJoinCheck(config) ==
    IF Len(config.Sources) = 0 THEN "no source"
    ELSE IF ~config.Target THEN "no target"
    ELSE "none"

\* The sanity check of New: the error it returns, if any.
SanityError(config) ==
    IF Len(config.Sources) = 0 THEN "no source"
    ELSE IF ~config.Target THEN "no target"
    ELSE IF Len(config.Sources) > 1 /\ ~config.Join THEN "no join"
    ELSE "none"

\* return nil, err
NewFails(err) ==
    /\ npc' = "done"
    /\ nres' = [err |-> err, ctrl |-> FALSE]

\* New is called: the sanity checks, then the Controller value, its target
\* and its reconciler are created and the source loop begins.
NewCall(config) ==
    /\ npc = "none"
    /\ ncfg' = config
    /\ nidx' = 1
    /\ IF SanityError(config) # "none"
       THEN NewFails(SanityError(config))
       ELSE /\ npc' = "gvk"
            /\ nres' = nres
    /\ UNCHANGED <<notNew, mgrReg>>

\* s.GetGVK(mgr)
NewGetGVK(ok) ==
    /\ npc = "gvk"
    /\ IF ok THEN npc' = "typed" /\ nres' = nres ELSE NewFails("gvk")
    /\ UNCHANGED <<notNew, ncfg, nidx, mgrReg>>

\* controller.NewTyped(name, mgr, ...): the runtime controller of the source
\* is created and registered with the manager.
NewTyped(ok) ==
    /\ npc = "typed"
    /\ IF ok
       THEN /\ npc' = "source"
            /\ nres' = nres
            /\ mgrReg' = [mgrReg EXCEPT !.ctrls = @ + 1]
       ELSE /\ NewFails("controller")
            /\ mgrReg' = mgrReg
    /\ UNCHANGED <<notNew, ncfg, nidx>>

\* NewSource(mgr, s).GetSource()
NewGetSource(ok) ==
    /\ npc = "source"
    /\ IF ok THEN npc' = "watch" /\ nres' = nres ELSE NewFails("source")
    /\ UNCHANGED <<notNew, ncfg, nidx, mgrReg>>

\* ctrl.Watch(src), and the loop goes on to the next source or to the end.
NewWatch(ok) ==
    /\ npc = "watch"
    /\ IF ok
       THEN /\ mgrReg' = [mgrReg EXCEPT !.watches = @ + 1]
            /\ nidx' = nidx + 1
            /\ npc' = IF nidx = Len(ncfg.Sources) THEN "add" ELSE "gvk"
            /\ nres' = nres
       ELSE /\ NewFails("watch")
            /\ UNCHANGED <<mgrReg, nidx>>
    /\ UNCHANGED <<notNew, ncfg>>

\* c.engine = pipeline.NewDefaultEngine(...); mgr.Add(c); return c, nil
NewAdd(ok) ==
    /\ npc = "add"
    /\ npc' = "done"
    /\ IF ok
       THEN /\ mgrReg' = [mgrReg EXCEPT !.added = TRUE]
            /\ nres' = [err |-> "none", ctrl |-> TRUE]
       ELSE /\ mgrReg' = mgrReg
            /\ nres' = [err |-> "schedule", ctrl |-> FALSE]
    /\ UNCHANGED <<notNew, ncfg, nidx>>

\* The manager starts the runnables that were added to it (Controller.Start).
ManagerStart ==
    /\ mgrReg.added
    /\ ~mgrReg.started
    /\ mgrReg' = [mgrReg EXCEPT !.started = TRUE]
    /\ UNCHANGED <<notNew, npc, ncfg, nidx, nres>>

(***************************************************************************)
(* trim, called on its own.                                                *)
(***************************************************************************)
TrimInit ==
    /\ tin = <<>>
    /\ tout = <<>>

\* trim(s) for a string s of length n.
TrimCall(n) ==
    /\ tin' = Str(n)
    /\ tout' = trim(Str(n))
    /\ UNCHANGED notTrim

(***************************************************************************)
(* FakeRuntimeCache: Upsert, Delete, Get and List on its Store.            *)
(***************************************************************************)

\* Bounds: the cache calls of one run and the versions of an object.
MaxCacheOps == 4
MaxObjVersion == 2

\* The objects handed to the cache and their keys (client.ObjectKey:
\* namespace and name).
CacheNames == {"a", "b"}
CacheObjects == [ns : {Namespace}, name : CacheNames, ver : 1..MaxObjVersion]
CacheKeys == [ns : {Namespace}, name : CacheNames]
ObjectKeyFromObject(obj) == [ns |-> obj.ns, name |-> obj.name]
NilObject == [ns |-> "", name |-> "", ver |-> 0]
NoCacheCall == [op |-> "none", key |-> ObjectKeyFromObject(NilObject),
                obj |-> NilObject, err |-> "none", list |-> <<>>, again |-> FALSE]

\* object.DeepCopy
DeepCopy(obj) == [ns |-> obj.ns, name |-> obj.name, ver |-> obj.ver]

\* The addresses of the objects: nil, the object the caller hands to its
\* next call, and the object a DeepCopy or an append of that call allocates.
NilRef == 0
CallerRef == 2 * cops + 1
CopyRef == 2 * cops + 2

\* An Upsert that stores the object of the caller itself.
StoredRef_NoCopy(caller, copy) == caller

\* The object Upsert stores: the copy that DeepCopy made of the object of
\* the caller.
StoredRef(caller, copy) == copy

\* NewFakeRuntimeCache: Store is nil.
CacheInit ==
    /\ Store = NilObject
    /\ upserted = EmptyMap
    /\ cres = NoCacheCall
    /\ cops = 0
    /\ refs = [store |-> NilRef, obj |-> NilRef]

\* An Upsert that, like an update on a server, stores the object under the
\* next version when an object with its key is already stored.
Upsert_BumpVersion(obj) ==
    /\ cops < MaxCacheOps
    /\ cops' = cops + 1
    /\ Store' = IF ObjectKeyFromObject(Store) = ObjectKeyFromObject(obj)
                THEN [DeepCopy(obj) EXCEPT !.ver = Store.ver + 1]
                ELSE DeepCopy(obj)
    /\ upserted' = Put(upserted, ObjectKeyFromObject(obj), obj)
    /\ cres' = [NoCacheCall EXCEPT !.op = "Upsert", !.obj = obj,
                                   !.key = ObjectKeyFromObject(obj),
                                   !.again = (cres.op = "Upsert" /\ cres.obj = obj)]
    /\ refs' = [store |-> StoredRef(CallerRef, CopyRef), obj |-> CallerRef]
    /\ UNCHANGED notCache

\* Upsert: c.Store = object.DeepCopy(obj)
Upsert(obj) ==
    /\ cops < MaxCacheOps
    /\ cops' = cops + 1
    /\ Store' = DeepCopy(obj)
    /\ upserted' = Put(upserted, ObjectKeyFromObject(obj), obj)
    /\ cres' = [NoCacheCall EXCEPT !.op = "Upsert", !.obj = obj,
                                   !.key = ObjectKeyFromObject(obj),
                                   !.again = (cres.op = "Upsert" /\ cres.obj = obj)]
    /\ refs' = [store |-> StoredRef(CallerRef, CopyRef), obj |-> CallerRef]
    /\ UNCHANGED notCache

\* Delete: c.Store = nil
Delete(obj) ==
    /\ cops < MaxCacheOps
    /\ cops' = cops + 1
    /\ Store' = NilObject
    /\ upserted' = Drop(upserted, ObjectKeyFromObject(obj))
    /\ cres' = [NoCacheCall EXCEPT !.op = "Delete", !.obj = obj,
                                   !.key = ObjectKeyFromObject(obj)]
    /\ refs' = [store |-> NilRef, obj |-> CallerRef]
    /\ UNCHANGED notCache

\* Get: the Store, when there is one, is copied into the object of the
\* caller (DeepCopyInto); otherwise a NotFound error.
Get(key) ==
    /\ cops < MaxCacheOps
    /\ cops' = cops + 1
    /\ cres' = IF Store # NilObject
               THEN [NoCacheCall EXCEPT !.op = "Get", !.key = key, !.obj = DeepCopy(Store)]
               ELSE [NoCacheCall EXCEPT !.op = "Get", !.key = key, !.err = "NotFound"]
    /\ refs' = [refs EXCEPT !.obj = IF Store # NilObject THEN CallerRef ELSE NilRef]
    /\ UNCHANGED <<notCache, Store, upserted>>

\* List: a copy of the Store, when there is one, is appended to the list
\* (AppendToListItem).
List ==
    /\ cops < MaxCacheOps
    /\ cops' = cops + 1
    /\ cres' = [NoCacheCall EXCEPT !.op = "List",
                   !.obj = IF Store # NilObject THEN DeepCopy(Store) ELSE NilObject,
                   !.list = IF Store # NilObject THEN <<DeepCopy(Store)>> ELSE <<>>]
    /\ refs' = [refs EXCEPT !.obj = IF Store # NilObject THEN CopyRef ELSE NilRef]
    /\ UNCHANGED <<notCache, Store, upserted>>

\* The caller sets the version of the object it holds from its last call:
\* the object it upserted, the object Get filled in, or the item of the
\* list.  The Store changes with it when it is that very object.
Mutate(ver) ==
    /\ refs.obj # NilRef
    /\ cres.op \in {"Upsert", "Get", "List", "Mutate"}
    /\ cres.obj.ver # ver
    /\ cres' = [cres EXCEPT !.op = "Mutate", !.obj.ver = ver, !.again = FALSE,
                            !.list = IF cres.list = <<>> THEN <<>>
                                     ELSE <<[cres.obj EXCEPT !.ver = ver]>>]
    /\ Store' = IF refs.store = refs.obj THEN [Store EXCEPT !.ver = ver] ELSE Store
    /\ UNCHANGED <<notCache, upserted, cops, refs>>

(***************************************************************************)
(* Expressions (pkg/pipeline/expression.go): their JSON encoding and their *)
(* evaluation.  A string is the sequence of its characters.                *)
(***************************************************************************)

\* Bounds: the longest list handed to a list command, and the largest
\* integer of a JSON text.
MaxListLen == 3
MaxInt == 2

\* The operators the model evaluates, by name.
Op ==
    [bool |-> <<"@", "b", "o", "o", "l">>, int |-> <<"@", "i", "n", "t">>,
     float |-> <<"@", "f", "l", "o", "a", "t">>, string |-> <<"@", "s", "t", "r", "i", "n", "g">>,
     list |-> <<"@", "l", "i", "s", "t">>, dict |-> <<"@", "d", "i", "c", "t">>,
     filter |-> <<"@", "f", "i", "l", "t", "e", "r">>, map |-> <<"@", "m", "a", "p">>,
     any |-> <<"@", "a", "n", "y">>, all |-> <<"@", "a", "l", "l">>,
     none |-> <<"@", "n", "o", "n", "e">>, isnil |-> <<"@", "i", "s", "n", "i", "l">>,
     exists |-> <<"@", "e", "x", "i", "s", "t", "s">>, not |-> <<"@", "n", "o", "t">>,
     eq |-> <<"@", "e", "q">>, gt |-> <<"@", "g", "t">>]

\* A Go value (any): nil, bool, int64, float64 (n and one decimal digit f),
\* string, []any, Unstructured; a Literal can also be a []Expression or a
\* map[string]Expression.  Val(t, x) is the value x of type t.
NilVal == [t |-> "nil", b |-> FALSE, n |-> 0, f |-> 0, s |-> <<>>, l |-> <<>>, m |-> EmptyMap]
Val(t, x) ==
    CASE t = "bool" -> [NilVal EXCEPT !.t = t, !.b = x]
      [] t = "int64" -> [NilVal EXCEPT !.t = t, !.n = x]
      [] t = "float64" -> [NilVal EXCEPT !.t = t, !.n = x[1], !.f = x[2]]
      [] t = "string" -> [NilVal EXCEPT !.t = t, !.s = x]
      [] t \in {"[]any", "[]Expression"} -> [NilVal EXCEPT !.t = t, !.l = x]
      [] t \in {"Unstructured", "map[string]Expression"} -> [NilVal EXCEPT !.t = t, !.m = x]

\* type Expression struct { Op string; Arg *Expression; Literal any }: Arg is
\* empty (nil) or holds the one expression it points to.
Expression(op, arg, literal) == [Op |-> op, Arg |-> arg, Literal |-> literal]
NoExpression == Expression(<<>>, <<>>, NilVal)

\* A JSON text, as the value it denotes: null, J("bool", b), J("number",
\* <<n, f, frac>>), J("string", s), J("array", a), J("object", o).  A number
\* keeps whether its text has a fraction part (2 and 2.0 are two texts of one
\* number); an object is the map of its members.
JNull ==
    [k |-> "null", b |-> FALSE, n |-> 0, f |-> 0, frac |-> FALSE, s |-> <<>>, a |-> <<>>,
     o |-> EmptyMap]
J(k, x) ==
    CASE k = "bool" -> [JNull EXCEPT !.k = k, !.b = x]
      [] k = "number" -> [JNull EXCEPT !.k = k, !.n = x[1], !.f = x[2], !.frac = x[3]]
      [] k = "string" -> [JNull EXCEPT !.k = k, !.s = x]
      [] k = "array" -> [JNull EXCEPT !.k = k, !.a = x]
      [] k = "object" -> [JNull EXCEPT !.k = k, !.o = x]
JMember(key, j) == J("object", Put(EmptyMap, key, j))

\* The first index of a non-empty set of indexes.
First(idx) == CHOOSE i \in idx : \A k \in idx : i <= k

\* UnmarshalJSON: the text is tried as a bool (null leaves the bool false
\* and is no error), an int64 (a number text without fraction), a float64,
\* a non-empty string, a list of expressions, a map of expressions; when all
\* fail it returns an unmarshal error.  The first element that fails makes
\* the list fail; op[0] of an empty single key is an index out of range, a
\* panic.
RECURSIVE UnmarshalJSON(_)
UnmarshalJSON(j) ==
    LET Parsed(e) == [err |-> "none", exp |-> e]
        Failed(err) == [err |-> err, exp |-> NoExpression]
    IN  CASE j.k \in {"bool", "null"} -> Parsed(Expression(Op.bool, <<>>,
                                                           Val("bool", j.b)))
          [] j.k = "number" /\ ~j.frac ->
                Parsed(Expression(Op.int, <<>>, Val("int64", j.n)))
          [] j.k = "number" /\ j.frac ->
                Parsed(Expression(Op.float, <<>>,
                                  Val("float64", <<j.n, j.f>>)))
          [] j.k = "string" /\ j.s # <<>> ->
                Parsed(Expression(Op.string, <<>>,
                                  Val("string", j.s)))
          [] j.k = "string" /\ j.s = <<>> -> Failed("unmarshal")
          [] j.k = "array" ->
                LET es == [i \in 1..Len(j.a) |-> UnmarshalJSON(j.a[i])]
                    bad == {i \in 1..Len(j.a) : es[i].err # "none"}
                IN  IF bad = {}
                    THEN Parsed(Expression(Op.list, <<>>,
                                Val("[]Expression", [i \in 1..Len(j.a) |-> es[i].exp])))
                    ELSE IF es[First(bad)].err = "panic" THEN Failed("panic")
                    ELSE Failed("unmarshal")
          [] j.k = "object" ->
                LET es == [key \in DOMAIN j.o |-> UnmarshalJSON(j.o[key])]
                    cv == [key \in DOMAIN j.o |-> es[key].exp]
                    dict == Parsed(Expression(Op.dict, <<>>,
                                              Val("map[string]Expression", cv)))
                IN  IF \E key \in DOMAIN j.o : es[key].err = "panic" THEN Failed("panic")
                    ELSE IF \E key \in DOMAIN j.o : es[key].err # "none"
                    THEN Failed("unmarshal")
                    ELSE IF Cardinality(DOMAIN cv) = 1
                    THEN LET op == CHOOSE key \in DOMAIN cv : TRUE
                         IN  IF op = <<>> THEN Failed("panic")
                             ELSE IF op[1] = "@" THEN Parsed(Expression(op, <<cv[op]>>, NilVal))
                             ELSE dict
                    ELSE dict

\* asBool, asInt, asFloat, asString, asList: the value when it has the type
\* t, otherwise an error.
asType(t, v) == [err |-> v.t # t, v |-> v]

\* MarshalJSON: @any marshals its Literal; a terminal with an Arg keeps its
\* op, except @list and @dict, which marshal the Arg alone; a terminal
\* marshals its literal (a whole float64 without fraction part); every other
\* op marshals as {op: Arg}, and its Op[0] is an index out of range when the
\* Op is empty.  It returns the text and nil, an error, or panics.
RECURSIVE MarshalJSON(_)
MarshalJSON(e) ==
    LET Marshalled(j) == [err |-> "none", json |-> j]
        Failed(err) == [err |-> err, json |-> JNull]
        MarshalLiteral(lit) ==
            CASE lit.t = "bool" -> J("bool", lit.b)
              [] lit.t = "int64" -> J("number", <<lit.n, 0, FALSE>>)
              [] lit.t = "float64" -> J("number", <<lit.n, lit.f, lit.f # 0>>)
              [] lit.t = "string" -> J("string", lit.s)
              [] OTHER -> JNull
        MarshalWithOp ==
            IF e.Arg = <<>> THEN Marshalled(JMember(e.Op, JNull))
            ELSE LET arg == MarshalJSON(e.Arg[1])
                 IN  IF arg.err # "none" THEN arg ELSE Marshalled(JMember(e.Op, arg.json))
        MarshalTerminal(t) ==
            IF e.Arg # <<>> THEN MarshalWithOp
            ELSE IF asType(t, e.Literal).err THEN Failed("marshal")
            ELSE Marshalled(MarshalLiteral(e.Literal))
        MarshalList(es) ==
            LET js == [i \in 1..Len(es) |-> MarshalJSON(es[i])]
                bad == {i \in 1..Len(es) : js[i].err # "none"}
            IN  IF bad = {} THEN Marshalled(J("array", [i \in 1..Len(es) |-> js[i].json]))
                ELSE js[First(bad)]
        MarshalMap(em) ==
            LET js == [key \in DOMAIN em |-> MarshalJSON(em[key])]
            IN  IF \E key \in DOMAIN em : js[key].err = "panic" THEN Failed("panic")
                ELSE IF \E key \in DOMAIN em : js[key].err # "none" THEN Failed("marshal")
                ELSE Marshalled(J("object", [key \in DOMAIN em |-> js[key].json]))
    IN  CASE e.Op = Op.any -> Marshalled(MarshalLiteral(e.Literal))
          [] e.Op = Op.bool -> MarshalTerminal("bool")
          [] e.Op = Op.int -> MarshalTerminal("int64")
          [] e.Op = Op.float -> MarshalTerminal("float64")
          [] e.Op = Op.string -> MarshalTerminal("string")
          [] e.Op = Op.list ->
                IF e.Arg # <<>> THEN MarshalJSON(e.Arg[1])
                ELSE IF e.Literal.t # "[]Expression" THEN Failed("marshal")
                ELSE MarshalList(e.Literal.l)
          [] e.Op = Op.dict ->
                IF e.Arg # <<>> THEN MarshalJSON(e.Arg[1])
                ELSE IF e.Literal.t # "map[string]Expression" THEN Failed("marshal")
                ELSE MarshalMap(e.Literal.m)
          [] OTHER ->
                IF e.Op = <<>> THEN Failed("panic")
                ELSE IF e.Op[1] # "@" THEN Failed("marshal")
                ELSE MarshalWithOp

\* e.String(): json.Marshal(e).
String(e) == MarshalJSON(e)

\* The outcome of an evaluation: a value and nil, or nil and an error (its
\* type, its message and, for an Expression error, the expression it
\* carries), or a panic.
Outcome(kind, v, type, msg, e) ==
    [kind |-> kind, val |-> v, err |-> [type |-> type, msg |-> msg, at |-> e]]
Value(v) == Outcome("value", v, "none", "", NoExpression)
NewExpressionError(e, msg) == Outcome("error", NilVal, "Expression", msg, e)
ErrorsNew(msg) == Outcome("error", NilVal, "plain", msg, NoExpression)
IndexOutOfRange == Outcome("panic", NilVal, "runtime", "index out of range", NoExpression)

\* GetJSONPath: a string that does not begin with $ is itself; $ is the
\* subject, the value bound by a list command; $.key is the field key of the
\* object, null when the object has none.
GetJSONPath(ctx, str) ==
    IF str = <<>> \/ str[1] # "$" THEN Value(Val("string", str))
    ELSE IF Len(str) = 1 THEN Value(ctx.subject)
    ELSE LET key == SubSeq(str, 3, Len(str))
         IN  IF str[2] = "." /\ ctx.object.t = "Unstructured" /\ key \in DOMAIN ctx.object.m
             THEN Value(ctx.object.m[key])
             ELSE Value(NilVal)

\* SetJSONPath: a @dict key is a setter: the value is written in ret at the
\* path of the key (the strings between its dots), making the documents on
\* the way; a value on the way that is no document is an error.
SetJSONPath(key, value, ret) ==
    LET RECURSIVE PathKeys(_, _)
        PathKeys(str, k) ==
            IF str = <<>> THEN <<k>>
            ELSE IF Head(str) = "." THEN <<k>> \o PathKeys(Tail(str), <<>>)
            ELSE PathKeys(Tail(str), Append(k, Head(str)))
        RECURSIVE SetPath(_, _)
        SetPath(m, keys) ==
            IF Len(keys) = 1 THEN [err |-> FALSE, ret |-> Put(m, keys[1], value)]
            ELSE LET sub == IF keys[1] \in DOMAIN m THEN m[keys[1]]
                            ELSE Val("Unstructured", EmptyMap)
                     r == SetPath(sub.m, Tail(keys))
                 IN  IF sub.t # "Unstructured" \/ r.err THEN [err |-> TRUE, ret |-> m]
                     ELSE [err |-> FALSE, ret |-> Put(m, keys[1], Val("Unstructured", r.ret))]
    IN  SetPath(ret, PathKeys(key, <<>>))

\* asExpOrList: the expressions of a literal list, or the one expression.
asExpOrList(arg) ==
    IF arg = <<>> THEN [err |-> TRUE, v |-> <<>>]
    ELSE IF arg[1].Op = Op.list /\ arg[1].Arg = <<>> /\ arg[1].Literal.t = "[]Expression"
    THEN [err |-> FALSE, v |-> arg[1].Literal.l]
    ELSE [err |-> FALSE, v |-> <<arg[1]>>]

\* unpackList: an empty list for an empty list; the first element when it is
\* a list; otherwise the list itself.
unpackList(a) ==
    IF a.t # "[]any" THEN <<a>>
    ELSE IF Len(a.l) = 0 THEN <<>>
    ELSE IF a.l[1].t = "[]any" THEN a.l[1].l
    ELSE a.l

\* The order in which a range over the map vm visits its keys: Go leaves it
\* open, here it is the order of the keys in ord.
RangeOrder(vm, ord) == SelectSeq(ord, LAMBDA key : key \in DOMAIN vm)

RECURSIVE ExpressionEvaluate(_, _, _)

\* @bool, @int, @float, @string: the Literal, or the value of the Arg, as a
\* value of the type t; a string is then resolved as a JSON path.
EvaluateTerminal(e, t, ctx, ord) ==
    LET lit == IF e.Arg # <<>> THEN ExpressionEvaluate(e.Arg[1], ctx, ord)
               ELSE Value(e.Literal)
    IN  IF lit.kind # "value" THEN lit
        ELSE IF asType(t, lit.val).err THEN NewExpressionError(e, "ill-typed")
        ELSE IF t = "string" THEN GetJSONPath(ctx, lit.val.s)
        ELSE lit

\* The expressions of a literal list are evaluated in order; the first error
\* is returned.
EvaluateEach(es, ctx, ord) ==
    LET rs == [i \in 1..Len(es) |-> ExpressionEvaluate(es[i], ctx, ord)]
        bad == {i \in 1..Len(es) : rs[i].kind # "value"}
    IN  IF bad = {} THEN Value(Val("[]any", [i \in 1..Len(es) |-> rs[i].val]))
        ELSE rs[First(bad)]

\* @list: the value of the Arg, which must be a list, or the values of the
\* literal list; then unpackList.
EvaluateList(e, ctx, ord) ==
    LET ret == IF e.Arg # <<>> THEN ExpressionEvaluate(e.Arg[1], ctx, ord)
               ELSE EvaluateEach(e.Literal.l, ctx, ord)
    IN  IF e.Arg = <<>> /\ e.Literal.t # "[]Expression"
        THEN NewExpressionError(e, "argument must be an expression list")
        ELSE IF ret.kind # "value" THEN ret
        ELSE IF ret.val.t # "[]any" THEN NewExpressionError(e, "argument must be a list")
        ELSE Value(Val("[]any", unpackList(ret.val)))

\* @dict: the value of the Arg, which must be a document, or the document
\* built by the range loop over the literal map: the expression of a key is
\* evaluated and its value set at the path of the key.
EvaluateDict(e, ctx, ord) ==
    LET RECURSIVE DictLoop(_, _)
        DictLoop(keys, ret) ==
            IF keys = <<>> THEN Value(Val("Unstructured", ret))
            ELSE LET res == ExpressionEvaluate(e.Literal.m[Head(keys)], ctx, ord)
                     set == SetJSONPath(Head(keys), res.val, ret)
                 IN  IF res.kind # "value" THEN res
                     ELSE IF set.err
                     THEN NewExpressionError(e, "could not deference JSON set expression")
                     ELSE DictLoop(Tail(keys), set.ret)
        v == ExpressionEvaluate(e.Arg[1], ctx, ord)
    IN  IF e.Arg # <<>>
        THEN IF v.kind = "value" /\ v.val.t # "Unstructured"
             THEN NewExpressionError(e, "argument must be a map")
             ELSE v
        ELSE IF e.Literal.t # "map[string]Expression"
        THEN NewExpressionError(e, "argument must be a map literal")
        ELSE DictLoop(RangeOrder(e.Literal.m, ord), EmptyMap)

\* The list a list command runs over: the value of args[1], which must be a
\* list; an error of args[1] is replaced by a new error.
ListArgument(args, ctx, ord) ==
    LET rawArg == ExpressionEvaluate(args[2], ctx, ord)
    IN  IF rawArg.kind = "panic" THEN rawArg
        ELSE IF rawArg.kind = "error" THEN ErrorsNew("failed to evaluate arguments")
        ELSE IF asType("[]any", rawArg.val).err
        THEN ErrorsNew("invalid arguments: expected a list")
        ELSE rawArg

\* The result res of the conditional of a list command on one element, as
\* the loop takes it: an error is returned as it is, a value that is no bool
\* is an Expression error.
Condition(e, res) ==
    IF res.kind # "value" THEN res
    ELSE IF asType("bool", res.val).err
    THEN NewExpressionError(e, "expected conditional expression to evaluate to boolean")
    ELSE res

\* A failure of the conditional that is skipped: the loop goes on with the
\* next element.
FilterOnFailure_Skip(failure, list, rest) == rest

\* @filter: a failure of the conditional is returned, with no list.
FilterOnFailure(failure, list, rest) == [out |-> failure, list |-> list]

\* An element that passes is put in front of the elements kept so far.
FilterKeep_InFront(vs, input, b) == IF b THEN <<input>> \o vs ELSE vs

\* if b { vs = append(vs, input) }
FilterKeep(vs, input, b) == IF b THEN Append(vs, input) ELSE vs

\* The loop of @filter from element i on, with vs the elements kept so far:
\* the outcome, and the list the loop ran over as it is after the loop.
RECURSIVE FilterLoop(_, _, _, _, _, _, _)
FilterLoop(e, cond, list, i, vs, ctx, ord) ==
    IF i > Len(list) THEN [out |-> Value(Val("[]any", vs)), list |-> list]
    ELSE LET res == Condition(e, ExpressionEvaluate(cond, [ctx EXCEPT !.subject = list[i]], ord))
         IN  IF res.kind # "value"
             THEN FilterOnFailure(res, list, FilterLoop(e, cond, list, i + 1, vs, ctx, ord))
             ELSE FilterLoop(e, cond, list, i + 1, FilterKeep(vs, list[i], res.val.b), ctx, ord)

\* @filter [cond, list]
EvaluateFilter(e, ctx, ord) ==
    LET args == asExpOrList(e.Arg)
        list == ListArgument(args.v, ctx, ord)
    IN  IF args.err THEN NewExpressionError(e, "empty argument list")
        ELSE IF Len(args.v) # 2
        THEN NewExpressionError(e, "invalid arguments: expected 2 arguments")
        ELSE IF list.kind # "value" THEN list
        ELSE FilterLoop(e, args.v[1], list.val.l, 1, <<>>, ctx, ord).out

\* A @none that answers as @all does.
Quantifier_NoneAsAll(op) ==
    IF op = Op.any THEN [v |-> FALSE, break |-> TRUE] ELSE [v |-> TRUE, break |-> FALSE]

\* The loops of @any, @all and @none: the verdict v before the loop, and the
\* result of the conditional that turns the verdict and breaks the loop.
Quantifier(op) ==
    CASE op = Op.any -> [v |-> FALSE, break |-> TRUE]
      [] op = Op.all -> [v |-> TRUE, break |-> FALSE]
      [] op = Op.none -> [v |-> TRUE, break |-> TRUE]

\* @any, @all, @none [exp, list]
EvaluateQuantifier(e, ctx, ord) ==
    LET args == asExpOrList(e.Arg)
        list == ListArgument(args.v, ctx, ord)
        RECURSIVE Loop(_)
        Loop(i) ==
            IF i > Len(list.val.l) THEN Value(Val("bool", Quantifier(e.Op).v))
            ELSE LET res == Condition(e, ExpressionEvaluate(args.v[1],
                                             [ctx EXCEPT !.subject = list.val.l[i]], ord))
                 IN  IF res.kind # "value" THEN res
                     ELSE IF res.val.b = Quantifier(e.Op).break
                     THEN Value(Val("bool", ~Quantifier(e.Op).v))
                     ELSE Loop(i + 1)
    IN  IF args.err THEN NewExpressionError(e, "empty argument list")
        ELSE IF Len(args.v) # 2
        THEN NewExpressionError(e, "invalid arguments: expected 2 arguments")
        ELSE IF list.kind # "value" THEN list
        ELSE Loop(1)

\* @map [exp, list]: args[0] and args[1] are taken with no check of the
\* number of arguments: with fewer than two the index is out of range.  The
\* values of exp on the elements; an error is returned as it is.
EvaluateMap(e, ctx, ord) ==
    LET args == asExpOrList(e.Arg)
        list == ListArgument(args.v, ctx, ord)
        RECURSIVE Loop(_, _)
        Loop(i, vs) ==
            IF i > Len(list.val.l) THEN Value(Val("[]any", vs))
            ELSE LET res == ExpressionEvaluate(args.v[1],
                                               [ctx EXCEPT !.subject = list.val.l[i]], ord)
                 IN  IF res.kind # "value" THEN res ELSE Loop(i + 1, Append(vs, res.val))
    IN  IF args.err THEN NewExpressionError(e, "empty argument list")
        ELSE IF Len(args.v) < 2 THEN IndexOutOfRange
        ELSE IF list.kind # "value" THEN list
        ELSE Loop(1, <<>>)

\* The operators: applied to the value of the Arg.  @gt takes a list of two
\* numbers (asBinaryIntOrFloatList), compared here in tenths; an op that is
\* none of them is unknown.
EvaluateOperator(e, arg) ==
    CASE e.Op = Op.isnil -> Value(Val("bool", arg = NilVal))
      [] e.Op = Op.exists -> Value(Val("bool", arg # NilVal))
      [] e.Op = Op.not ->
            IF asType("bool", arg).err THEN NewExpressionError(e, "ill-typed")
            ELSE Value(Val("bool", ~arg.b))
      [] e.Op = Op.eq ->
            IF asType("[]any", arg).err THEN NewExpressionError(e, "ill-typed")
            ELSE IF Len(arg.l) # 2 THEN NewExpressionError(e, "expected 2 arguments")
            ELSE Value(Val("bool", arg.l[1] = arg.l[2]))
      [] e.Op = Op.gt ->
            IF \/ asType("[]any", arg).err
               \/ Len(arg.l) # 2
               \/ \E i \in DOMAIN arg.l : arg.l[i].t \notin {"int64", "float64"}
            THEN NewExpressionError(e, "ill-typed")
            ELSE Value(Val("bool", 10 * arg.l[1].n + arg.l[1].f > 10 * arg.l[2].n + arg.l[2].f))
      [] OTHER -> NewExpressionError(e, "unknown op")

\* Evaluate: an empty Op is an InvalidArguments error, whose message holds
\* e.String(); the terminals; the list commands; then the operators, on the
\* value of the Arg; an Op without @ makes the document {Op: value}.
ExpressionEvaluate(e, ctx, ord) ==
    IF Len(e.Op) = 0
    THEN IF String(e).err = "panic" THEN IndexOutOfRange
         ELSE Outcome("error", NilVal, "InvalidArguments", "empty operator in expession",
                      NoExpression)
    ELSE CASE e.Op = Op.bool -> EvaluateTerminal(e, "bool", ctx, ord)
           [] e.Op = Op.int -> EvaluateTerminal(e, "int64", ctx, ord)
           [] e.Op = Op.float -> EvaluateTerminal(e, "float64", ctx, ord)
           [] e.Op = Op.string -> EvaluateTerminal(e, "string", ctx, ord)
           [] e.Op = Op.list -> EvaluateList(e, ctx, ord)
           [] e.Op = Op.dict -> EvaluateDict(e, ctx, ord)
           [] e.Op = Op.filter -> EvaluateFilter(e, ctx, ord)
           [] e.Op \in {Op.any, Op.all, Op.none} -> EvaluateQuantifier(e, ctx, ord)
           [] e.Op = Op.map -> EvaluateMap(e, ctx, ord)
           [] OTHER ->
                IF e.Arg = <<>> THEN NewExpressionError(e, "empty argument list")
                ELSE LET arg == ExpressionEvaluate(e.Arg[1], ctx, ord)
                     IN  IF arg.kind # "value" THEN arg
                         ELSE IF e.Op[1] = "@" THEN EvaluateOperator(e, arg.val)
                         ELSE Value(Val("Unstructured", Put(EmptyMap, e.Op, arg.val)))

\* The keys of the @dict literals (c.d is a path) and the orders in which a
\* range can visit them.
DictKeys == {<<"a">>, <<"b">>, <<"c", ".", "d">>}
RangeOrders ==
    {ord \in [1..Cardinality(DictKeys) -> DictKeys] :
        \A i, k \in DOMAIN ord : ord[i] = ord[k] => i = k}

\* The orders an evaluation of e can meet: every order when e is a map
\* literal, whose members a range visits, and one order, which is then never
\* looked at, when e has no map literal.
Orders(e) ==
    IF e.Op = Op.dict /\ e.Arg = <<>> THEN RangeOrders ELSE {CHOOSE ord \in RangeOrders : TRUE}

\* The objects of the evaluation contexts: {x: 1} and {x: [[1, 2]]}.
Objects ==
    {Val("Unstructured", Put(EmptyMap, <<"x">>, x)) :
        x \in {Val("int64", 1),
               Val("[]any", <<Val("[]any", <<Val("int64", 1), Val("int64", 2)>>)>>)}}

\* The JSON texts handed to UnmarshalJSON.
JSONTexts ==
    LET JInt(n) == J("number", <<n, 0, FALSE>>)
        JStr(s) == J("string", s)
        Seqs(S, n) == UNION {[1..k -> S] : k \in 0..n}
        Ints == {JInt(n) : n \in 1..MaxInt}
        Scalars ==
            Ints \cup {JNull, J("bool", TRUE), J("bool", FALSE), JStr(<<>>), JStr(<<"a">>),
                       JStr(<<"$">>), JStr(<<"$", ".", "x">>), JStr(<<"$", ".", "y">>)}
                 \cup {J("number", <<n, f, TRUE>>) : n \in 1..MaxInt, f \in {0, 5}}
        \* the lists of the list commands: integers and true
        Lists == {J("array", l) : l \in Seqs(Ints \cup {J("bool", TRUE)}, MaxListLen)}
        \* their conditionals: the element itself, a comparison with the field
        \* x of the object or with 1 (an error on a boolean), and true
        Conditions ==
            {JStr(<<"$">>),
             JMember(Op.eq, J("array", <<JStr(<<"$">>), JStr(<<"$", ".", "x">>)>>)),
             JMember(Op.gt, J("array", <<JStr(<<"$">>), JInt(1)>>)),
             J("bool", TRUE)}
        Commands == {Op.filter, Op.map, Op.any, Op.all, Op.none}
        ListCommands ==
            {JMember(op, J("array", <<c, l>>)) : op \in Commands, c \in Conditions, l \in Lists}
        \* list commands with no, one or three arguments, or with an argument
        \* that is no list
        WrongArity ==
            {JMember(op, a) :
                op \in Commands,
                a \in {J("array", <<>>), J("array", <<JStr(<<"$">>)>>), JStr(<<"$">>), JInt(1),
                       J("array", <<JStr(<<"$">>), J("array", <<JInt(1)>>), J("array", <<JInt(1)>>)>>)}}
        \* lists of integers and of lists of integers
        Inner == Ints \cup {J("array", l) : l \in Seqs(Ints, 2)}
        Nested == {J("array", l) : l \in Seqs(Inner, 2)}
        \* the operators and the terminals, with an argument
        Operators ==
            {JMember(op, a) :
                op \in {Op.isnil, Op.exists, Op.not, Op.eq, Op.gt, Op.bool, Op.int, Op.float,
                        Op.string, Op.list, Op.dict, <<"@", "x">>},
                a \in {JInt(1), J("bool", TRUE), JStr(<<"$", ".", "x">>),
                       J("array", <<JInt(2), JInt(1)>>)}}
        \* objects: their members are integers or fail with an unknown
        \* operator; and the object whose one key is empty
        Members == {JInt(1), JMember(<<"@", "x">>, JInt(1)), JMember(<<"@", "y">>, JInt(1))}
        Dicts ==
            {J("object", o) : o \in UNION {[keys -> Members] : keys \in SUBSET DictKeys}}
    IN  Scalars \cup ListCommands \cup WrongArity \cup Nested \cup Operators \cup Dicts
            \cup {JMember(<<>>, JInt(1))}

\* No expression parsed, no text marshalled, nothing evaluated.
ExprInit ==
    /\ xpc = "idle"
    /\ xjson = JNull
    /\ xexp = [err |-> "none", exp |-> NoExpression]
    /\ xctx = [object |-> NilVal, subject |-> NilVal]
    /\ xres = Outcome("none", NilVal, "none", "", NoExpression)
    /\ xres2 = Outcome("none", NilVal, "none", "", NoExpression)
    /\ xtext = [err |-> "none", json |-> JNull]
    /\ xexp2 = [err |-> "none", exp |-> NoExpression]
    /\ xres3 = Outcome("none", NilVal, "none", "", NoExpression)

\* The expressions a caller builds without a JSON text: the zero value
\* Expression{} and other expressions whose Op is empty.
Built ==
    {NoExpression,
     Expression(<<>>, <<>>, Val("int64", 1)),
     Expression(<<>>, <<Expression(Op.bool, <<>>, Val("bool", TRUE))>>, NilVal)}

\* E := Expression{...}
ExprConstruct(e) ==
    /\ xpc = "idle"
    /\ xexp' = [err |-> "none", exp |-> e]
    /\ xpc' = "built"
    /\ UNCHANGED <<notExpr, xjson, xctx, xres, xres2, xtext, xexp2, xres3>>

\* json.Unmarshal(J, &E)
ExprUnmarshal(j) ==
    /\ xpc = "idle"
    /\ xjson' = j
    /\ xexp' = UnmarshalJSON(j)
    /\ xpc' = IF xexp'.err = "none" THEN "parsed" ELSE "unparsed"
    /\ UNCHANGED <<notExpr, xctx, xres, xres2, xtext, xexp2, xres3>>

\* E.Evaluate(ctx) on the object, with no subject.
ExprEvaluate(object, ord) ==
    /\ xpc \in {"parsed", "built"}
    /\ xctx' = [object |-> object, subject |-> NilVal]
    /\ xres' = ExpressionEvaluate(xexp.exp, xctx', ord)
    /\ xpc' = "evaluated"
    /\ UNCHANGED <<notExpr, xjson, xexp, xres2, xtext, xexp2, xres3>>

\* E.Evaluate(ctx) again, on the same context.
ExprEvaluateAgain(ord) ==
    /\ xpc = "evaluated"
    /\ xres2' = ExpressionEvaluate(xexp.exp, xctx, ord)
    /\ xpc' = "twice"
    /\ UNCHANGED <<notExpr, xjson, xexp, xctx, xres, xtext, xexp2, xres3>>

\* json.Marshal(&E)
ExprMarshal ==
    /\ xpc = "twice"
    /\ xtext' = MarshalJSON(xexp.exp)
    /\ xpc' = IF xtext'.err = "none" THEN "marshalled" ELSE "unmarshalled"
    /\ UNCHANGED <<notExpr, xjson, xexp, xctx, xres, xres2, xexp2, xres3>>

\* json.Unmarshal(J', &E')
ExprUnmarshalAgain ==
    /\ xpc = "marshalled"
    /\ xexp2' = UnmarshalJSON(xtext.json)
    /\ xpc' = IF xexp2'.err = "none" THEN "reparsed" ELSE "unreparsed"
    /\ UNCHANGED <<notExpr, xjson, xexp, xctx, xres, xres2, xtext, xres3>>

\* E'.Evaluate(ctx)
ExprEvaluateReparsed(ord) ==
    /\ xpc = "reparsed"
    /\ xres3' = ExpressionEvaluate(xexp2.exp, xctx, ord)
    /\ xpc' = "done"
    /\ UNCHANGED <<notExpr, xjson, xexp, xctx, xres, xres2, xtext, xexp2>>

(***************************************************************************)
(* The state after New: an empty cluster, an empty open channel, idle      *)
(* producers, and the worker of Start at its select.                       *)
(***************************************************************************)
Init ==
    /\ src = EmptyMap
    /\ nev = 0
    /\ prod = [k \in Kinds |-> Idle]
    /\ watcher = <<>>
    /\ closed = FALSE
    /\ ctxDone = FALSE
    /\ cancelMark = 0
    /\ wpc = "select"
    /\ wreq = NoRequest
    /\ wseq = 0
    /\ wobj = Stub(NoRequest)
    /\ wfetched = FALSE
    /\ wdeltas = <<>>
    /\ widx = 1
    /\ wcall = FreshCall
    /\ wprev = FreshCall
    /\ eng = NewDefaultEngine
    /\ accView = EmptyMap
    /\ nsent = 0
    /\ nproc = 0
    /\ ReporterInit
    /\ NewInit
    /\ TrimInit
    /\ CacheInit
    /\ ExprInit

(***************************************************************************)
(* The sources: a watch event changes the cluster and makes the runtime    *)
(* controller of its source call Reconcile with the request of the event.  *)
(***************************************************************************)

\* The cluster after an event of type t on the object key with content obj.
\* Added creates, Updated changes the content, Deleted removes; Replaced and
\* Sync re-deliver an object as it is.
SourceAfter(t, key, obj) ==
    CASE t = "Added" -> Put(src, key, obj)
      [] t = "Updated" -> Put(src, key, obj)
      [] t = "Deleted" -> Drop(src, key)
      [] OTHER -> src

\* Whether the cluster can deliver the event.
EventPossible(t, key, obj) ==
    CASE t = "Added" -> key \notin DOMAIN src
      [] t = "Updated" -> key \in DOMAIN src /\ obj # src[key]
      [] OTHER -> key \in DOMAIN src /\ obj = src[key]

\* A watch event of the source kind, of one of the given types, while fewer
\* than limit events were delivered: the runtime controller enters
\* Reconcile(ctx, req) (the r.log line, before the send).
WatchEvent(kind, types, limit) ==
    /\ prod[kind].st = "idle"
    /\ nev < limit
    /\ \E t \in types, name \in NamesOf(kind), obj \in Contents(kind) :
          /\ EventPossible(t, <<kind, name>>, obj)
          /\ src' = SourceAfter(t, <<kind, name>>, obj)
          /\ prod' = [prod EXCEPT ![kind] = [st |-> "calling", late |-> closed,
                                             req |-> Request(t, kind, name)]]
    /\ nev' = nev + 1
    /\ UNCHANGED <<notCtrl, chanVars, ctxDone, cancelMark, wpc, recvVars, procVars, wcall, wprev>>

\* A non-blocking send (select with a default case): on a full channel the
\* request is dropped and Reconcile returns.
ReconcileSend_DropWhenFull(kind) ==
    /\ prod[kind].st = "calling"
    /\ ~closed
    /\ watcher' = IF Len(watcher) < WatcherBufferSize
                  THEN Append(watcher, Sent(prod[kind].req, nsent + 1)) ELSE watcher
    /\ nsent' = nsent + 1
    /\ prod' = [prod EXCEPT ![kind] = Idle]
    /\ UNCHANGED <<notCtrl, envVars, closed, ctxDone, cancelMark, wpc, recvVars, procVars, wcall, wprev>>

\* r.watcher <- req on an open channel with a free slot; Reconcile returns.
ReconcileSend(kind) ==
    /\ prod[kind].st = "calling"
    /\ ~closed
    /\ Len(watcher) < WatcherBufferSize
    /\ watcher' = Append(watcher, Sent(prod[kind].req, nsent + 1))
    /\ nsent' = nsent + 1
    /\ prod' = [prod EXCEPT ![kind] = Idle]
    /\ UNCHANGED <<notCtrl, envVars, closed, ctxDone, cancelMark, wpc, recvVars, procVars, wcall, wprev>>

\* r.watcher <- req on a closed channel: the send panics, also for a call
\* that was blocked on the full channel when it was closed.
ReconcilePanic(kind) ==
    /\ prod[kind].st = "calling"
    /\ closed
    /\ prod' = [prod EXCEPT ![kind].st = "panicked"]
    /\ UNCHANGED <<notCtrl, envVars, chanVars, ctxDone, cancelMark, wpc, recvVars, procVars, wcall, wprev>>

\* A resync: the runtime controller of the source kind delivers an object
\* of the cluster once more and its Reconcile sends the request, as soon as
\* fewer than MaxPending requests wait in the channel.  Resyncs go on for
\* ever and are not counted: their requests carry the sequence number 0.
Resync(kind) ==
    /\ prod[kind].st = "idle"
    /\ ~closed
    /\ Len(watcher) < MaxPending
    /\ \E name \in NamesOf(kind) :
          /\ <<kind, name>> \in DOMAIN src
          /\ watcher' = Append(watcher, Sent(Request("Sync", kind, name), 0))
    /\ UNCHANGED <<notCtrl, envVars, prod, closed, nsent, ctxDone, cancelMark, wpc, recvVars,
                   procVars, wcall, wprev>>

\* The context of Start is cancelled.
Cancel ==
    /\ ~ctxDone
    /\ ctxDone' = TRUE
    /\ cancelMark' = nsent
    /\ UNCHANGED <<notCtrl, envVars, prod, chanVars, wpc, recvVars, procVars, wcall, wprev>>

(***************************************************************************)
(* Controller.Start: the select of the worker loop.  With both cases ready *)
(* Go's select picks either.                                               *)
(***************************************************************************)

\* A worker that takes the most recent request instead of the oldest.
StartRecv_Lifo ==
    /\ wpc = "select"
    /\ watcher # <<>>
    /\ wreq' = watcher[Len(watcher)].req
    /\ wseq' = watcher[Len(watcher)].seq
    /\ watcher' = SubSeq(watcher, 1, Len(watcher) - 1)
    /\ nproc' = IF watcher[Len(watcher)].seq = 0 THEN nproc ELSE nproc + 1
    /\ wprev' = wcall
    /\ wcall' = FreshCall
    /\ wpc' = "fetch"
    /\ UNCHANGED <<notCtrl, envVars, prod, closed, nsent, ctxDone, cancelMark, procVars>>

\* case req := <-c.watcher: the processor is invoked on the head request
\* (nproc counts the requests that carry a sequence number).
StartRecv ==
    /\ wpc = "select"
    /\ watcher # <<>>
    /\ wreq' = Head(watcher).req
    /\ wseq' = Head(watcher).seq
    /\ watcher' = Tail(watcher)
    /\ nproc' = IF Head(watcher).seq = 0 THEN nproc ELSE nproc + 1
    /\ wprev' = wcall
    /\ wcall' = FreshCall
    /\ wpc' = "fetch"
    /\ UNCHANGED <<notCtrl, envVars, prod, closed, nsent, ctxDone, cancelMark, procVars>>

\* A cancellation branch that hands the buffered requests to the processor
\* before it returns.
StartDone_Drain ==
    /\ wpc = "select"
    /\ ctxDone
    /\ wpc' = "returned"
    /\ closed' = TRUE
    /\ nproc' = nproc + Len(watcher)
    /\ watcher' = <<>>
    /\ UNCHANGED <<notCtrl, envVars, prod, nsent, ctxDone, cancelMark, wreq, wseq, procVars, wcall, wprev>>

\* A select that takes the cancellation branch only when no request waits.
StartDone_WhenIdle ==
    /\ wpc = "select"
    /\ ctxDone
    /\ watcher = <<>>
    /\ wpc' = "returned"
    /\ closed' = TRUE
    /\ UNCHANGED <<notCtrl, envVars, prod, watcher, nsent, ctxDone, cancelMark, recvVars, procVars,
                   wcall, wprev>>

\* case <-ctx.Done(): return nil, and the deferred close(c.watcher) runs.
StartDone ==
    /\ wpc = "select"
    /\ ctxDone
    /\ wpc' = "returned"
    /\ closed' = TRUE
    /\ UNCHANGED <<notCtrl, envVars, prod, watcher, nsent, ctxDone, cancelMark, recvVars, procVars,
                   wcall, wprev>>

(***************************************************************************)
(* processRequest                                                          *)
(***************************************************************************)

\* A fetch condition written as "every event but Sync".
NeedsFetch_UnlessSync(t) == t # "Sync"

\* The event types for which processRequest fetches the object.
NeedsFetch(t) == t \in {"Added", "Updated", "Replaced"}

\* A loop that ends at the first error of the processor: Start returns it.
Return_StopOnError(call, err) ==
    /\ wcall' = [call EXCEPT !.err = err]
    /\ wpc' = IF err # "none" THEN "returned" ELSE "select"

\* A Start without its loop: it returns after the first processor call.
Return_NoLoop(call, err) ==
    /\ wcall' = [call EXCEPT !.err = err]
    /\ wpc' = "returned"

\* processRequest returns err to the loop of Start, which logs it and selects
\* again.
Return(call, err) ==
    /\ wcall' = [call EXCEPT !.err = err]
    /\ wpc' = "select"

\* A fetch whose error is not checked: the stub goes on to the pipeline.
ProcFetch_IgnoreErr ==
    /\ wpc = "fetch"
    /\ IF NeedsFetch(wreq.EventType)
       THEN IF KeyOf(wreq) \in DOMAIN src
            THEN /\ wobj' = Fetched(wreq, src[KeyOf(wreq)])
                 /\ wfetched' = TRUE
                 /\ wcall' = [wcall EXCEPT !.get = "ok"]
            ELSE /\ wobj' = Stub(wreq)
                 /\ wfetched' = FALSE
                 /\ wcall' = [wcall EXCEPT !.get = "err"]
       ELSE /\ wobj' = Stub(wreq)
            /\ wfetched' = FALSE
            /\ wcall' = wcall
    /\ wpc' = "eval"
    /\ UNCHANGED <<notCtrl, envVars, prod, chanVars, ctxDone, cancelMark, recvVars, wdeltas, widx,
                   wprev, eng, accView>>

\* Obtain the requested object: the stub, filled in by the client's Get for
\* the event types that fetch; a failed Get returns the error.
ProcFetch ==
    /\ wpc = "fetch"
    /\ IF NeedsFetch(wreq.EventType)
       THEN IF KeyOf(wreq) \in DOMAIN src
            THEN /\ wobj' = Fetched(wreq, src[KeyOf(wreq)])
                 /\ wfetched' = TRUE
                 /\ wcall' = [wcall EXCEPT !.get = "ok"]
                 /\ wpc' = "eval"
            ELSE /\ wobj' = Stub(wreq)
                 /\ wfetched' = FALSE
                 /\ Return([wcall EXCEPT !.get = "err"], "fetch")
       ELSE /\ wobj' = Stub(wreq)
            /\ wfetched' = FALSE
            /\ wcall' = wcall
            /\ wpc' = "eval"
    /\ UNCHANGED <<notCtrl, envVars, prod, chanVars, ctxDone, cancelMark, recvVars, wdeltas, widx,
                   wprev, eng, accView>>

\* delta := cache.Delta{Type: req.EventType, Object: obj}
Delta(req, obj) == [Type |-> req.EventType, Object |-> obj]

\* An evaluation whose error is not checked: the write loop runs over the
\* deltas of the compositions that could be evaluated.
ProcEval_IgnoreErr ==
    /\ wpc = "eval"
    /\ LET r == Evaluate(eng, Delta(wreq, wobj))
           deltas == OutDeltas(eng, r.eng.base, Delta(wreq, wobj))
       IN  /\ eng' = r.eng
           /\ wdeltas' = deltas
           /\ IF deltas = <<>>
              THEN Return([wcall EXCEPT !.eval = IF r.err THEN "err" ELSE "ok"], "none")
              ELSE /\ wcall' = [wcall EXCEPT !.eval = IF r.err THEN "err" ELSE "ok",
                                             !.nout = Len(deltas)]
                   /\ wpc' = "write"
    /\ widx' = 1
    /\ UNCHANGED <<notCtrl, envVars, prod, chanVars, ctxDone, cancelMark, recvVars, wobj, wfetched,
                   wprev, accView>>

\* Process the delta through the pipeline; an error is returned, and with no
\* output delta the write loop is empty and processRequest returns nil.
ProcEval ==
    /\ wpc = "eval"
    /\ LET r == Evaluate(eng, Delta(wreq, wobj))
       IN  /\ eng' = r.eng
           /\ IF r.err
              THEN /\ wdeltas' = <<>>
                   /\ Return([wcall EXCEPT !.eval = "err"], "eval")
              ELSE /\ wdeltas' = r.deltas
                   /\ IF r.deltas = <<>>
                      THEN Return([wcall EXCEPT !.eval = "ok"], "none")
                      ELSE /\ wcall' = [wcall EXCEPT !.eval = "ok", !.nout = Len(r.deltas)]
                           /\ wpc' = "write"
    /\ widx' = 1
    /\ UNCHANGED <<notCtrl, envVars, prod, chanVars, ctxDone, cancelMark, recvVars, wobj, wfetched,
                   wprev, accView>>

\* One round of the write loop: c.target.Write(ctx, d) succeeds or fails; a
\* failure returns the error, the last success returns nil.
ProcWrite ==
    /\ wpc = "write"
    /\ accView' = Accumulate(accView, wdeltas[widx])
    /\ \E ok \in BOOLEAN :
          LET call == [wcall EXCEPT !.nwrites = @ + 1]
          IN  IF ~ok
              THEN /\ Return(call, "write")
                   /\ widx' = widx
              ELSE /\ widx' = widx + 1
                   /\ IF widx = Len(wdeltas)
                      THEN Return(call, "none")
                      ELSE /\ wcall' = call
                           /\ wpc' = wpc
    /\ UNCHANGED <<notCtrl, envVars, prod, chanVars, ctxDone, cancelMark, recvVars, wobj, wfetched,
                   wdeltas, wprev, eng>>

Next ==
    \/ \E kind \in Kinds : WatchEvent(kind, EventTypes, MaxEvents)
    \/ \E kind \in Kinds : ReconcileSend(kind)
    \/ \E kind \in Kinds : ReconcilePanic(kind)
    \/ Cancel
    \/ StartRecv
    \/ StartDone
    \/ ProcFetch
    \/ ProcEval
    \/ ProcWrite

Spec == Init /\ [][Next]_vars

\* The loop with sources that never stop: after their Added events they
\* resync for ever.  A processor call that has begun goes on to its end, and
\* the select of Start, which picks at random among the cases that can
\* proceed, does not leave out the cancellation case for ever.
NextLive ==
    \/ \E kind \in Kinds : WatchEvent(kind, {"Added"}, MaxEvents)
    \/ \E kind \in Kinds : ReconcileSend(kind)
    \/ \E kind \in Kinds : ReconcilePanic(kind)
    \/ \E kind \in Kinds : Resync(kind)
    \/ Cancel
    \/ StartRecv
    \/ StartDone
    \/ ProcFetch
    \/ ProcEval
    \/ ProcWrite

SpecLive ==
    /\ Init
    /\ [][NextLive]_vars
    /\ WF_vars(ProcFetch)
    /\ WF_vars(ProcEval)
    /\ WF_vars(ProcWrite)
    /\ SF_vars(StartDone)


(***************************************************************************)
(* A burst: the sources have delivered the Added event of ConfigMap c1,    *)
(* Sync events of c1 and then the Added event of Deployment d1, which      *)
(* refers to c1, and these requests fill the channel before the worker     *)
(* took its first one.  From there the sources deliver MaxBurstEvents Sync *)
(* events.                                                                 *)
(***************************************************************************)
BurstRequests ==
    [i \in 1..WatcherBufferSize |->
        Sent(CASE i = 1 -> Request("Added", ConfigMapKind, "c1")
               [] i = WatcherBufferSize -> Request("Added", DeploymentKind, "d1")
               [] OTHER -> Request("Sync", ConfigMapKind, "c1"), i)]

InitBurst ==
    /\ src = Put(Put(EmptyMap, <<ConfigMapKind, "c1">>, [ver |-> 1, ref |-> NoRef]),
                    <<DeploymentKind, "d1">>, [ver |-> 0, ref |-> "c1"])
    /\ nev = 0
    /\ prod = [k \in Kinds |-> Idle]
    /\ watcher = BurstRequests
    /\ closed = FALSE
    /\ ctxDone = FALSE
    /\ cancelMark = 0
    /\ wpc = "select"
    /\ wreq = NoRequest
    /\ wseq = 0
    /\ wobj = Stub(NoRequest)
    /\ wfetched = FALSE
    /\ wdeltas = <<>>
    /\ widx = 1
    /\ wcall = FreshCall
    /\ wprev = FreshCall
    /\ eng = NewDefaultEngine
    /\ accView = EmptyMap
    /\ nsent = Len(BurstRequests)
    /\ nproc = 0
    /\ ReporterInit
    /\ NewInit
    /\ TrimInit
    /\ CacheInit
    /\ ExprInit

NextBurst ==
    \/ \E kind \in Kinds : WatchEvent(kind, {"Sync"}, MaxBurstEvents)
    \/ \E kind \in Kinds : ReconcileSend(kind)
    \/ \E kind \in Kinds : ReconcilePanic(kind)
    \/ Cancel
    \/ StartRecv
    \/ StartDone
    \/ ProcFetch
    \/ ProcEval
    \/ ProcWrite

SpecBurst == InitBurst /\ [][NextBurst]_vars

\* The burst with a context that is never cancelled, and its scheduling: a
\* worker at its select with a request waiting receives it, a processor
\* call that began goes on to its end, and a Reconcile blocked in its send
\* gets the slot that comes free (the senders of a channel wait in a queue).
NextProgress ==
    \/ \E kind \in Kinds : WatchEvent(kind, {"Sync"}, MaxBurstEvents)
    \/ \E kind \in Kinds : ReconcileSend(kind)
    \/ StartRecv
    \/ ProcFetch
    \/ ProcEval
    \/ ProcWrite

SpecProgress ==
    /\ InitBurst
    /\ [][NextProgress]_vars
    /\ WF_vars(StartRecv)
    /\ WF_vars(ProcFetch)
    /\ WF_vars(ProcEval)
    /\ WF_vars(ProcWrite)
    /\ \A kind \in Kinds : SF_vars(ReconcileSend(kind))

NextReporter ==
    \/ \E cap \in {NilChan} \cup (0..MaxErrChanCap) : NewErrorReporter(cap)
    \/ \E crit \in BOOLEAN : Push(Err(npush + 1), crit)
    \/ PushError(Err(npush + 1))
    \/ PushCriticalError(Err(npush + 1))
    \/ Pop
    \/ NotifierRecv
    \/ Tick

SpecReporter == Init /\ [][NextReporter]_vars

NextNew ==
    \/ \E config \in Configs : NewCall(config)
    \/ \E ok \in BOOLEAN : NewGetGVK(ok)
    \/ \E ok \in BOOLEAN : NewTyped(ok)
    \/ \E ok \in BOOLEAN : NewGetSource(ok)
    \/ \E ok \in BOOLEAN : NewWatch(ok)
    \/ \E ok \in BOOLEAN : NewAdd(ok)
    \/ ManagerStart

SpecNew == Init /\ [][NextNew]_vars

NextTrim ==
    \E n \in 0..MaxMessageLen : TrimCall(n)

SpecTrim == Init /\ [][NextTrim]_vars

NextCache ==
    \/ \E obj \in CacheObjects : Upsert(obj)
    \/ \E obj \in CacheObjects : Delete(obj)
    \/ \E key \in CacheKeys : Get(key)
    \/ List
    \/ \E ver \in 1..MaxObjVersion : Mutate(ver)

SpecCache == Init /\ [][NextCache]_vars

NextExpr ==
    \/ \E e \in Built : ExprConstruct(e)
    \/ \E j \in JSONTexts : ExprUnmarshal(j)
    \/ \E object \in Objects, ord \in Orders(xexp.exp) : ExprEvaluate(object, ord)
    \/ \E ord \in Orders(xexp.exp) : ExprEvaluateAgain(ord)
    \/ ExprMarshal
    \/ ExprUnmarshalAgain
    \/ \E ord \in Orders(xexp2.exp) : ExprEvaluateReparsed(ord)

SpecExpr == Init /\ [][NextExpr]_vars

(***************************************************************************)
(* Properties of the controller loop                                       *)
(***************************************************************************)

\* Every request the sources produced was processed: no Reconcile call is
\* pending, the channel is open and empty, the worker is back at its select.
Quiescent ==
    /\ wpc = "select"
    /\ ~closed
    /\ watcher = <<>>
    /\ \A k \in Kinds : prod[k].st = "idle"

\* C1 (delta conservation): once the requests of the sources are processed,
\* the output deltas handed to the target, accumulated in order onto the
\* empty view, equal the full evaluation of the pipeline over the final
\* source state (where that evaluation is defined).
DeltaConservation ==
    (Quiescent /\ ~JoinError(src)) => accView = FullEval(src)


\* C2 (FIFO): the n-th invocation of the processor is on the n-th request
\* that Reconcile sent, and the channel holds exactly the requests sent after
\* it, in the order of their sends: nothing is reordered, lost or duplicated.
FifoProcessing ==
    /\ nproc > 0 => wseq = nproc
    /\ Len(watcher) = nsent - nproc
    /\ \A i \in 1..Len(watcher) : watcher[i].seq = nproc + i

\* The processor was invoked on two requests, and the request of one source
\* is being processed while a request of the other source waits behind it.
FifoWitness ==
    /\ nproc >= 2
    /\ watcher # <<>>
    /\ Head(watcher).req.GVK # wreq.GVK

\* C4 (a failed write does not abort the others): when processRequest has
\* returned, target.Write was called once for every output delta that
\* Pipeline.Evaluate returned.
EveryDeltaWritten ==
    (wpc \in {"select", "returned"} /\ wcall.eval = "ok") => wcall.nwrites = wcall.nout

\* C5 (no request is started after cancellation): once the context is
\* cancelled, the processor is not invoked on a further request.
NoRequestStartedAfterCancel ==
    [][ctxDone => nproc' = nproc]_vars

\* C6, as claimed (the worker drains the channel on shutdown): when Start has
\* returned, every request sent before the cancellation was handed to the
\* processor.
DrainedOnShutdown ==
    wpc = "returned" => nproc >= cancelMark

\* C6, amended (the worker does not drain): the cancellation branch of Start
\* returns without receiving from the channel, and after Start has returned
\* the channel keeps what it held and no request is handed to the processor.
NoDrainOnShutdown ==
    [][/\ (wpc = "select" /\ wpc' = "returned")
            => (watcher' = watcher /\ nproc' = nproc)
       /\ wpc = "returned"
            => (wpc' = "returned" /\ watcher' = watcher /\ nproc' = nproc)]_vars

\* Start has returned and requests that were buffered at the cancellation are
\* still in the closed channel.
NoDrainWitness ==
    /\ wpc = "returned"
    /\ closed
    /\ nproc < cancelMark
    /\ watcher # <<>>

\* C7 (events after shutdown are dropped): a Reconcile call made when Start
\* has returned and the channel is closed does not crash.
ReconcileAfterShutdownReturns ==
    \A k \in Kinds : ~(prod[k].late /\ prod[k].st = "panicked")

\* C8 (fetch unless Deleted): the delta handed to Pipeline.Evaluate for a
\* request that is not Deleted carries the object fetched from the client.
FetchedUnlessDeleted ==
    (wpc = "eval" /\ wreq.EventType # "Deleted") => wfetched


\* C9 (cache miss): when the client's Get fails for a request, the request
\* is dropped: processRequest returns the fetch error without evaluating the
\* pipeline or writing to the target, and the engine and the target are as
\* they were.
CacheMissDropsRequest ==
    /\ [](wcall.get = "err" =>
            /\ wcall.eval = "none"
            /\ wcall.nwrites = 0
            /\ wcall.err = "fetch"
            /\ wpc \in {"select", "returned"})
    /\ [][wcall'.get = "err" => (eng' = eng /\ accView' = accView)]_vars

\* The Get of an Added, Updated or Replaced request failed: the object was
\* deleted between the event and the fetch.
CacheMissWitness ==
    /\ wcall.get = "err"
    /\ NeedsFetch(wreq.EventType)
    /\ KeyOf(wreq) \notin DOMAIN src

\* C10 (expression error): when Pipeline.Evaluate returns an error, no
\* target write is made for the request, processRequest returns the error,
\* and the worker is back at its select, where it takes the next request
\* of the channel (Start returns only through cancellation).
EvalErrorSkipsDelta ==
    wcall.eval = "err" =>
        /\ wcall.nwrites = 0
        /\ wcall.err = "eval"
        /\ wpc = "select" \/ (wpc = "returned" /\ ctxDone)
        /\ (wpc = "select" /\ watcher # <<>>) => ENABLED StartRecv

\* The worker processes a request after one whose evaluation failed.
EvalErrorWitness ==
    /\ wprev.eval = "err"
    /\ wpc \in {"fetch", "eval", "write"}
    /\ ~ctxDone


\* C3 (backpressure): the channel never holds more than WatcherBufferSize
\* requests; a Reconcile call that finds the open channel full stays blocked
\* (only the worker's receive makes room) and never returns while the
\* channel is full; and while the worker is running a
\* Reconcile call ends only by appending its request to the channel, whose
\* content otherwise changes only by the worker taking its head.
Backpressure ==
    /\ [](Len(watcher) <= WatcherBufferSize)
    /\ [][\A k \in Kinds :
            /\ (prod[k].st = "calling" /\ ~closed /\ Len(watcher) = WatcherBufferSize)
                  => prod'[k] = prod[k]
            /\ (prod[k].st = "calling" /\ Len(watcher) = WatcherBufferSize)
                  => prod'[k].st # "idle"
            /\ (prod[k].st = "calling" /\ wpc # "returned" /\ prod'[k] # prod[k])
                  => /\ prod'[k].st = "idle"
                     /\ watcher' = Append(watcher, Sent(prod[k].req, nsent + 1))]_vars
    /\ [][watcher' # watcher =>
            \/ watcher # <<>> /\ watcher' = Tail(watcher) /\ wreq' = Head(watcher).req
            \/ \E k \in Kinds : /\ prod[k].st = "calling"
                                /\ watcher' = Append(watcher, Sent(prod[k].req, nsent + 1))]_vars

\* A Reconcile call is blocked on the full channel while the worker runs.
BackpressureWitness ==
    /\ Len(watcher) = WatcherBufferSize
    /\ ~closed
    /\ wpc # "returned"
    /\ \E k \in Kinds : prod[k].st = "calling"

\* C13 (the Deleted delta): for a Deleted request processRequest makes no
\* Get, and the delta it hands to Pipeline.Evaluate has type Deleted and an
\* object that carries the request's kind, namespace and name (and nothing
\* fetched).
DeletedDeltaCarriesIdentity ==
    /\ (nproc > 0 /\ wreq.EventType = "Deleted") => wcall.get = "none"
    /\ (wpc = "eval" /\ wreq.EventType = "Deleted") =>
          /\ ~wfetched
          /\ Delta(wreq, wobj) =
                [Type |-> "Deleted",
                 Object |-> [GVK |-> wreq.GVK, Namespace |-> wreq.Namespace,
                             Name |-> wreq.Name, ver |-> 0, ref |-> NoRef]]

\* The delta of a Deleted request is about to be evaluated, for an object
\* the engine holds in its base cache.
DeletedDeltaWitness ==
    /\ wpc = "eval"
    /\ wreq.EventType = "Deleted"
    /\ KeyOf(wreq) \in DOMAIN eng.base


StartReturnsAfterCancel == ctxDone ~> (wpc = "returned" /\ closed)

\* Start has returned after the worker processed a resynced request, with
\* the next resynced request waiting in the channel.
StartReturnsWitness ==
    /\ wpc = "returned"
    /\ ctxDone
    /\ wseq = 0 /\ wreq # NoRequest
    /\ watcher # <<>>
    /\ Head(watcher).seq = 0

\* C32 (progress): with a context that is never cancelled, Start stays in
\* its loop whatever the processor returns, every Reconcile
\* call returns, also one that found the channel full, and every request
\* the channel accepted is handed to the processor: once n requests were
\* accepted, n requests are handed over, for the requests of the burst (the
\* first WatcherBufferSize, accepted from the start on) and for each later
\* one.
Progress ==
    /\ [](~ctxDone /\ wpc # "returned" /\ ~closed)
    /\ \A kind \in Kinds : (prod[kind].st = "calling") ~> (prod[kind].st = "idle")
    /\ \A n \in WatcherBufferSize..(WatcherBufferSize + MaxBurstEvents) :
          (nsent >= n) ~> (nproc >= n)

\* The request of a Reconcile call made on the full channel was handed to
\* the processor, after every request of the burst.
ProgressWitness ==
    /\ ~ctxDone
    /\ nev = 1
    /\ nproc = WatcherBufferSize + 1
    /\ wseq = WatcherBufferSize + 1
    /\ wpc # "select"
    /\ \A kind \in Kinds : prod[kind].st = "idle"


(***************************************************************************)
(* Properties of the error reporter                                        *)
(***************************************************************************)

\* C11 (errors reach the reporter): when processRequest has returned an
\* evaluation or write error to the loop of Start, that error is on top of
\* the error reporter's stack.
ProcessingErrorReported ==
    (wpc = "select" /\ wcall.err \in {"eval", "write"}) =>
        /\ errorStack # <<>>
        /\ Top(errorStack).kind = wcall.err

\* C14 (bounded stack): the error stack never holds more than
\* ErrorReporterStackSize errors.
StackBounded ==
    Len(errorStack) <= ErrorReporterStackSize

\* The stack is full after more pushes than it has room for, and after a Pop.
StackBoundedWitness ==
    /\ Len(errorStack) = ErrorReporterStackSize
    /\ npush > ErrorReporterStackSize
    /\ npop > 0

\* C15 (most recent errors): after n pushes and no Pop the stack holds the
\* last min(n, 10) pushed errors in push order, Top is the most recently
\* pushed error and Report lists the messages of the retained errors, oldest
\* first.
MostRecentErrorsKept ==
    (rst # "none" /\ npop = 0) =>
        LET k == IF npush < ErrorReporterStackSize THEN npush ELSE ErrorReporterStackSize
        IN  /\ Len(errorStack) = k
            /\ \A i \in 1..k : errorStack[i] = Err(npush - k + i)
            /\ Top(errorStack) = IF npush = 0 THEN NilError ELSE Err(npush)
            /\ Len(Report(errorStack)) = k
            /\ \A i \in 1..k : Report(errorStack)[i] = <<npush - k + i>>

\* More errors were pushed than the stack holds, with no Pop: the two oldest
\* were evicted.
MostRecentWitness ==
    /\ npop = 0
    /\ npush >= ErrorReporterStackSize + 2
    /\ rst = "idle"

\* C16 (one-shot critical flag): IsCritical is false until the first
\* PushCriticalError, which sets it; no other call sets it and no call
\* resets it.
CriticalOneShot ==
    /\ [](npush = 0 => ~IsCritical)
    /\ [][/\ critical => critical'
          /\ (~critical /\ critical')
                => (npush' = npush + 1 /\ rcall'.op = "PushCriticalError")
          /\ (npush' = npush + 1 /\ rcall'.op = "PushCriticalError")
                => critical']_vars

\* The flag was set and a Pop was made afterwards, with an error left on the
\* stack.
CriticalWitness ==
    /\ critical
    /\ rcall.op = "Pop"
    /\ npush >= 2
    /\ Top(errorStack) # NilError

\* C17 (rate-limited notifications), for a reporter with an error channel:
\* each of the first RateLimiterFirst Push calls sends its error on the
\* channel; a later Push sends only when RateLimiterInterval seconds have
\* passed since the limiter last let a send through; and a Push that does
\* not send leaves the channel alone and still has its error on top of the
\* stack.
NotificationsRateLimited ==
    [][(npush' = npush + 1 /\ errCap # NilChan) =>
          /\ rcall'.err = Err(npush')
          /\ Top(errorStack') = rcall'.err
          /\ rlCount < RateLimiterFirst =>
                \/ rcall'.send = "done" /\ errorChan' = Append(errorChan, rcall'.err)
                \/ rcall'.send = "blocked" /\ Len(errorChan) >= errCap
          /\ (rlCount >= RateLimiterFirst /\ rcall'.send # "none")
                => now - rlLast >= RateLimiterInterval
          /\ rcall'.send = "none" => errorChan' = errorChan]_vars

\* A Push after the first three was rate-limited: nothing was sent and its
\* error is on top of the stack.
RateLimitedWitness ==
    /\ errCap # NilChan
    /\ npush > RateLimiterFirst
    /\ rcall.send = "none"
    /\ rcall.err = Err(npush)
    /\ Top(errorStack) = Err(npush)

\* C34 (Push never blocks): a Push is never left waiting in its send on the
\* error channel, whatever the capacity of the channel and whether or not a
\* notifier receives from it.
PushNeverBlocks == rcall.send # "blocked"

\* C35 (Push with critical = true): after Push(err, true) IsCritical is
\* true, as after PushCriticalError(err).
PushCriticalMarks ==
    (rcall.op \in {"Push", "PushCriticalError"} /\ rcall.crit) => IsCritical

\* The last reporter call was a Push, PushError or PushCriticalError.
PushedLast == rcall.op \in {"Push", "PushError", "PushCriticalError"}

\* C36 (Push then Pop is the identity), as stated: a Pop that follows a Push
\* leaves the stack the Push found, whatever its size, a full stack
\* included; a Pop on an empty stack leaves it empty, and Top is then nil.
PushPopInverse ==
    [][npop' = npop + 1 =>
          /\ PushedLast => errorStack' = rcall.stack
          /\ errorStack = <<>> => (errorStack' = <<>> /\ Top(errorStack') = NilError)]_vars

\* C36, amended: a Pop that follows a Push leaves the stack the Push found
\* when that held fewer than ErrorReporterStackSize errors, and the stack
\* the Push found without its oldest error when it was full; a Pop on an
\* empty stack leaves it empty, and Top is then nil.
PushPopInverseUnlessFull ==
    [][npop' = npop + 1 =>
          /\ PushedLast =>
                errorStack' = IF Len(rcall.stack) = ErrorReporterStackSize
                              THEN Tail(rcall.stack)
                              ELSE rcall.stack
          /\ errorStack = <<>> => (errorStack' = <<>> /\ Top(errorStack') = NilError)]_vars

\* A Pop followed the Push of an eleventh error on a full stack: nine errors
\* are left, the second to the tenth.
PushPopWitness ==
    /\ rcall.op = "Pop"
    /\ npop = 1
    /\ npush = ErrorReporterStackSize + 1
    /\ Len(rcall.stack) = ErrorReporterStackSize
    /\ errorStack = [i \in 1..(ErrorReporterStackSize - 1) |-> Err(i + 1)]


(***************************************************************************)
(* Properties of New                                                       *)
(***************************************************************************)

\* C12 (invalid configurations are rejected at construction): called with
\* no source, with an empty target, or with several sources and no Join, New
\* returns an error and no controller, and nothing is or ever gets registered
\* with the manager: no runtime controller, no watch, no scheduled or started
\* Controller.
InvalidConfigRejected ==
    (npc # "none" /\ (\/ Len(ncfg.Sources) = 0
                      \/ ~ncfg.Target
                      \/ Len(ncfg.Sources) > 1 /\ ~ncfg.Join)) =>
        /\ npc = "done"
        /\ nres.err \in {"no source", "no target", "no join"}
        /\ ~nres.ctrl
        /\ mgrReg = [ctrls |-> 0, watches |-> 0, added |-> FALSE, started |-> FALSE]

\* New was called with two sources, a target and no Join, and has returned.
InvalidConfigWitness ==
    /\ npc = "done"
    /\ Len(ncfg.Sources) > 1
    /\ ncfg.Target
    /\ ~ncfg.Join
    /\ nres.err = "no join"

\* C33 (New is all-or-nothing): when New has returned an error, no runtime
\* controller and no watch is registered with the manager, and the
\* Controller is not scheduled.
NewAllOrNothing ==
    (npc = "done" /\ nres.err # "none") =>
        /\ ~nres.ctrl
        /\ mgrReg.ctrls = 0
        /\ mgrReg.watches = 0
        /\ ~mgrReg.added

\* C18 (abbreviation): a message longer than 245 characters is abbreviated
\* to exactly 245 characters: its first 120, then "[...]", then its last
\* 120; a message of at most 245 characters is returned as it is.
TrimAbbreviation ==
    IF Len(tin) > 2 * TrimPrefixSuffixLen + 5
    THEN /\ Len(tout) = 2 * TrimPrefixSuffixLen + 5
         /\ tout = SubSeq(tin, 1, TrimPrefixSuffixLen) \o Ellipsis
                   \o SubSeq(tin, Len(tin) - TrimPrefixSuffixLen + 1, Len(tin))
    ELSE tout = tin

(***************************************************************************)
(* Properties of the fake cache                                            *)
(***************************************************************************)

\* C19 (idempotent Upsert): an Upsert(x) that directly follows an Upsert(x)
\* leaves the cache as it was: the same Store, and so the same answers of
\* Get and List.
UpsertIdempotent ==
    [][(/\ cres.op = "Upsert"
        /\ cops' = cops + 1
        /\ cres'.op = "Upsert"
        /\ cres'.obj = cres.obj) => Store' = Store]_vars

\* The same object was upserted twice in a row, after the cache held
\* another object.
UpsertTwiceWitness ==
    /\ cres.op = "Upsert"
    /\ cres.again
    /\ Store = cres.obj
    /\ \E k \in DOMAIN upserted : k # cres.key

\* C20 (lookup by key): Get(key) returns an object exactly when an object
\* with that key was upserted and not deleted since, and then it is the one
\* last upserted under that key; otherwise Get returns NotFound.
GetByKey ==
    cres.op = "Get" =>
        IF cres.key \in DOMAIN upserted
        THEN cres.err = "none" /\ cres.obj = upserted[cres.key]
        ELSE cres.err = "NotFound"

\* C21 (Delete of an absent key): a Delete of an object whose key holds no
\* object (never upserted, or deleted since) is a no-op: the Store, from
\* which Get and List answer, is what it was before, also when it holds an
\* object with another key.
DeleteAbsentIsNoOp ==
    [][(/\ cops' = cops + 1
        /\ cres'.op = "Delete"
        /\ cres'.key \notin DOMAIN upserted) => Store' = Store]_vars

\* C37 (the cache stores and returns copies): when the caller mutates the
\* object it passed to Upsert, the object Get filled in or the item List
\* appended, the Store, from which the later Get and List calls answer, is
\* what it was; the object of the caller is never the stored object.
CacheHoldsCopies ==
    /\ [](refs.obj # NilRef => refs.obj # refs.store)
    /\ [][cres'.op = "Mutate" => Store' = Store]_vars

\* The caller changed the version of an object that the cache holds under
\* the same key, after it upserted it and got it back: the stored version is
\* still the one upserted.
CacheHoldsCopiesWitness ==
    /\ cres.op = "Mutate"
    /\ cops >= 2
    /\ Store # NilObject
    /\ ObjectKeyFromObject(cres.obj) = ObjectKeyFromObject(Store)
    /\ cres.obj.ver # Store.ver
    /\ Store = upserted[ObjectKeyFromObject(Store)]

(***************************************************************************)
(* Properties of the expressions                                           *)
(***************************************************************************)

\* E has been evaluated on the context.
Evaluated == xpc \notin {"idle", "built", "parsed", "unparsed"}

\* The Arg of e is a literal list of exactly two expressions.
TwoArguments(e) ==
    /\ e.Arg # <<>>
    /\ e.Arg[1].Op = Op.list
    /\ e.Arg[1].Arg = <<>>
    /\ e.Arg[1].Literal.t = "[]Expression"
    /\ Len(e.Arg[1].Literal.l) = 2

\* C22 (round trip): the expression E parsed from a JSON text marshals to a
\* JSON text, which parses to an expression E' that evaluates on the context
\* to what E evaluates to, in whatever order a range visits the keys of a
\* map.
RoundTrip ==
    /\ xpc \notin {"unmarshalled", "unreparsed"}
    /\ xpc \in {"reparsed", "done"} =>
          \A ord \in RangeOrders :
              ExpressionEvaluate(xexp2.exp, xctx, ord) = ExpressionEvaluate(xexp.exp, xctx, ord)

\* C23 (classification): UnmarshalJSON returns @bool for true and false,
\* @int for an integer, @float for a number that is no integer, @string for
\* a non-empty string, @list with one sub-expression per element for an
\* array, the operator invocation key(value) for an object whose single key
\* starts with @, and a @dict literal with the keys of the object for every
\* other object.
Classification ==
    xpc \notin {"idle", "built"} =>
        LET j == xjson
            e == xexp.exp
            ok == xexp.err = "none" /\ e.Arg = <<>>
        IN  CASE j.k = "bool" -> ok /\ e.Op = Op.bool /\ e.Literal = Val("bool", j.b)
              [] j.k = "number" /\ ~j.frac ->
                    ok /\ e.Op = Op.int /\ e.Literal = Val("int64", j.n)
              [] j.k = "number" /\ j.f # 0 ->
                    ok /\ e.Op = Op.float /\ e.Literal = Val("float64", <<j.n, j.f>>)
              [] j.k = "string" /\ j.s # <<>> ->
                    ok /\ e.Op = Op.string /\ e.Literal = Val("string", j.s)
              [] j.k = "array" ->
                    /\ ok /\ e.Op = Op.list /\ e.Literal.t = "[]Expression"
                    /\ Len(e.Literal.l) = Len(j.a)
                    /\ \A i \in DOMAIN j.a : e.Literal.l[i] = UnmarshalJSON(j.a[i]).exp
              [] j.k = "object" ->
                    IF \E key \in DOMAIN j.o : DOMAIN j.o = {key} /\ key # <<>> /\ key[1] = "@"
                    THEN /\ xexp.err = "none"
                         /\ DOMAIN j.o = {e.Op}
                         /\ e.Arg = <<UnmarshalJSON(j.o[e.Op]).exp>>
                    ELSE /\ ok /\ e.Op = Op.dict /\ e.Literal.t = "map[string]Expression"
                         /\ DOMAIN e.Literal.m = DOMAIN j.o
                         /\ \A key \in DOMAIN j.o :
                                e.Literal.m[key] = UnmarshalJSON(j.o[key]).exp
              [] OTHER -> TRUE

\* C24 (purity): the second evaluation of E on the context has the outcome
\* of the first: the same value, or the same error.
Purity ==
    xpc \in {"twice", "marshalled", "unmarshalled", "reparsed", "unreparsed", "done"}
        => xres2 = xres

\* C25 (wrong arity): the evaluation of @filter, @map, @any, @all or @none
\* with an argument that is not a list of exactly two expressions returns an
\* Expression error, no value and no panic.
WrongArityIsError ==
    (/\ Evaluated
     /\ xexp.exp.Op \in {Op.filter, Op.map, Op.any, Op.all, Op.none}
     /\ ~TwoArguments(xexp.exp))
        => xres.kind = "error" /\ xres.err.type = "Expression" /\ xres.val = NilVal

\* The list a list command with two arguments runs over, and the result of
\* its conditional on the element x; neither holds a map, so that the order
\* of a range is immaterial to them.
AnOrder == CHOOSE ord \in RangeOrders : TRUE
CommandList == ExpressionEvaluate(xexp.exp.Arg[1].Literal.l[2], xctx, AnOrder)
ConditionOn(x) ==
    ExpressionEvaluate(xexp.exp.Arg[1].Literal.l[1], [xctx EXCEPT !.subject = x], AnOrder)
Holds(x) == ConditionOn(x) = Value(Val("bool", TRUE))
Fails(x) == ConditionOn(x).kind # "value" \/ ConditionOn(x).val.t # "bool"

\* E is the list command op with two arguments, the second a list, and was
\* evaluated.
CommandEvaluated(op) ==
    /\ Evaluated
    /\ xexp.exp.Op = op
    /\ TwoArguments(xexp.exp)
    /\ CommandList.kind = "value"
    /\ CommandList.val.t = "[]any"

\* C26 (@filter): when the conditional is true or false on every element,
\* @filter returns the elements it is true on, with the subject the element
\* and the object that of the context, in their order and each as often as
\* it occurs; the list it ran over is as before.
FilterSelects ==
    (CommandEvaluated(Op.filter) /\ \A i \in DOMAIN CommandList.val.l : ~Fails(CommandList.val.l[i]))
        => /\ xres = Value(Val("[]any", SelectSeq(CommandList.val.l, Holds)))
           /\ FilterLoop(xexp.exp, xexp.exp.Arg[1].Literal.l[1], CommandList.val.l, 1, <<>>,
                         xctx, AnOrder).list = CommandList.val.l

\* A @filter of three elements on a conditional that reads the object kept
\* the first and the last, which are equal, and dropped the second.
FilterSelectsWitness ==
    /\ CommandEvaluated(Op.filter)
    /\ xexp.exp.Arg[1].Literal.l[1].Op = Op.eq
    /\ Len(CommandList.val.l) = 3
    /\ ~Fails(CommandList.val.l[2]) /\ ~Holds(CommandList.val.l[2])
    /\ xres = Value(Val("[]any", <<CommandList.val.l[1], CommandList.val.l[3]>>))
    /\ CommandList.val.l[1] = CommandList.val.l[3]

\* C27 (a failing predicate aborts @filter): when the conditional returns an
\* error or a value that is no bool on some element, at whatever position,
\* @filter returns an error and no list.
FilterAborts ==
    (CommandEvaluated(Op.filter) /\ \E i \in DOMAIN CommandList.val.l : Fails(CommandList.val.l[i]))
        => xres.kind = "error" /\ xres.val = NilVal

\* The conditional held on the first two of three elements and failed, with
\* a value that is no bool, on the last; @filter returned an error.
FilterAbortsWitness ==
    /\ CommandEvaluated(Op.filter)
    /\ Len(CommandList.val.l) = 3
    /\ Holds(CommandList.val.l[1]) /\ Holds(CommandList.val.l[2])
    /\ ConditionOn(CommandList.val.l[3]).kind = "value"
    /\ Fails(CommandList.val.l[3])
    /\ xres.kind = "error"

\* C28 (@list unpacking): a literal list whose elements evaluate to the
\* values r evaluates to the one element of r when r has exactly one element
\* and that is a list, and to r itself otherwise, also when the first of
\* several elements is a list.
ListUnpacksOneElement ==
    (/\ Evaluated
     /\ xexp.exp.Op = Op.list
     /\ xexp.exp.Arg = <<>>
     /\ EvaluateEach(xexp.exp.Literal.l, xctx, AnOrder).kind = "value")
        => LET r == EvaluateEach(xexp.exp.Literal.l, xctx, AnOrder).val.l
           IN  xres = Value(Val("[]any", IF Len(r) = 1 /\ r[1].t = "[]any" THEN r[1].l ELSE r))

\* C29 (quantifiers): when the conditional is true or false on every
\* element, @any, @all and @none return a value; the value they return is
\* whether the conditional holds on some element (@any), on every element
\* (@all), on no element (@none), so false, true and true on the empty list;
\* and @none returns the negation of what @any returns on the same
\* arguments, or fails when @any fails.
Quantifiers ==
    \A op \in {Op.any, Op.all, Op.none} :
        CommandEvaluated(op) =>
            LET list == CommandList.val.l
                some == \E i \in DOMAIN list : Holds(list[i])
                every == \A i \in DOMAIN list : Holds(list[i])
                any == ExpressionEvaluate([xexp.exp EXCEPT !.Op = Op.any], xctx, AnOrder)
                none == ExpressionEvaluate([xexp.exp EXCEPT !.Op = Op.none], xctx, AnOrder)
            IN  /\ (\A i \in DOMAIN list : ~Fails(list[i])) => xres.kind = "value"
                /\ xres.kind = "value" =>
                      xres.val = Val("bool", CASE op = Op.any -> some
                                               [] op = Op.all -> every
                                               [] op = Op.none -> ~some)
                /\ none.kind = any.kind
                /\ any.kind = "value" => none.val = Val("bool", ~any.val.b)

\* @none returned false on a list of three elements: the conditional did not
\* hold on the first and held on the last.
QuantifiersWitness ==
    /\ CommandEvaluated(Op.none)
    /\ Len(CommandList.val.l) = 3
    /\ ~Fails(CommandList.val.l[1]) /\ ~Holds(CommandList.val.l[1])
    /\ Holds(CommandList.val.l[3])
    /\ xres = Value(Val("bool", FALSE))

\* C38 (empty Op): the evaluation of an expression whose Op is empty returns
\* an InvalidArguments error and no value; it does not panic.
EmptyOpIsError ==
    (Evaluated /\ xexp.exp.Op = <<>>)
        => xres.kind = "error" /\ xres.err.type = "InvalidArguments" /\ xres.val = NilVal

\* C39 (UnmarshalJSON is total): UnmarshalJSON returns an Expression or an
\* unmarshal error on every JSON text, and an unmarshal error on null and on
\* the empty string.
UnmarshalIsTotal ==
    xpc \notin {"idle", "built"} =>
        /\ xexp.err \in {"none", "unmarshal"}
        /\ (xjson = JNull \/ xjson = J("string", <<>>)) => xexp.err = "unmarshal"

=============================================================================
